---- MODULE Spec2Model ----
(***************************************************************************)
(* Verification model of the ai-whiteboard repository.                     *)
(*                                                                         *)
(* Five state machines live in this module.                                *)
(*                                                                         *)
(* The AI command agent: the in-memory board lock of                       *)
(* backend/src/config/redis.js, handleAICommand of the socket server       *)
(* (backend/src/server.js) and the serverless handler of api/ai.js.        *)
(*                                                                         *)
(*   SpecAI       AI commands arrive through both entry points             *)
(*   SpecLoop     one AI command, the LLM asking for tools in any round    *)
(*   SpecTools    the board tools of a command write the table             *)
(*                                                                         *)
(* The client store of frontend/src/contexts/AuthContext.jsx (joinBoard,   *)
(* the feed and broadcast handlers, addObject / updateObject /             *)
(* deleteObject) against the board_objects table and the realtime channel  *)
(* of the provider.                                                        *)
(*                                                                         *)
(*   SpecSync     clients that have joined the board edit it               *)
(*   SpecConverge the same with one more edit, so that two clients can     *)
(*                update one object at the same time                       *)
(*   SpecJoin     clients open the board while others edit it              *)
(*   SpecOrphan   clients and a socket delete a shape and its connector    *)
(*   SpecSelect   clients select objects and delete them                   *)
(*   SpecLeave    clients open the board and leave it                      *)
(*                                                                         *)
(* The REST API of backend/src/routes/boards.js behind the middleware      *)
(* authenticate / optionalAuth / checkBoardAccess / requireRole.           *)
(*                                                                         *)
(*   SpecBoards   requests against every content of the tables             *)
(*                                                                         *)
(* The socket handlers of part_001 (create_object, update_object,          *)
(* delete_object), each split at its await.                                *)
(*                                                                         *)
(*   SpecSocket   a socket sends object events                             *)
(*   SpecObjects  the same while requests list a board or delete it        *)
(*                                                                         *)
(* The rooms of the socket server (join_board, leave_board, disconnect,    *)
(* create_object of part_001) and the MCP server of part_009 that caches   *)
(* the objects of its board.                                               *)
(*                                                                         *)
(*   SpecPresence sockets join and leave the rooms of two boards           *)
(*   SpecMcp      the MCP server joins while objects are created           *)
(***************************************************************************)
EXTENDS Integers, Sequences, FiniteSets, TLC

(***************************************************************************)
(* Bounds of the model.                                                    *)
(***************************************************************************)
\* number of AI command runs
MaxRuns == 2
\* tool_use blocks the LLM may put in one response
MaxTools == 2
\* the clock runs for this many lock lifetimes
MaxTtlPeriods == 1
\* rounds of one run in which the LLM asks for tools
MaxToolRounds == 1

(***************************************************************************)
(* Program constants.                                                      *)
(***************************************************************************)
\* redis.js:77 (default) and server.js:339 (argument)
ttlMs == 30000
\* server.js:160, api/ai.js:4
MAX_TOOL_ITERATIONS == 10

Runs == 1..MaxRuns
Boards == {"b1", "b2"}
\* the clock advances in half lifetimes, so that "exactly at expiry" happens
ClockStep == ttlMs \div 2
MaxClock == ttlMs * MaxTtlPeriods

NoLock == [value |-> <<>>, expiry |-> -1]
NoValue == <<>>

\* the two entry points of an AI command
Entries == {"socket", "http"}
StopReasons == {"tool_use", "end_turn", "max_tokens"}
\* what a tool_use block names: a board write (create_*, update_object,
\* delete_object), the read get_board_state, or a name the switch does not know
ToolKinds == {"write", "read", "unknown"}

\* server.js:341
BusyMessage == "Another AI operation is in progress. Please wait."
\* socketHandler ai_command; api/ai.js:336-352 answers 401 with its own text
AuthMessage == "Authentication required for AI features"
\* error.message of whatever the provider, the LLM or a tool threw
ErrorMessage == "error.message"

\* number of browser clients
MaxClients == 2
\* rows the board_objects table ever gets
MaxObjs == 2
\* store mutations (addObject, updateObject, deleteObject) the clients start
MaxOps == 1

Clients == 1..MaxClients
ObjIds == 1..MaxObjs
\* what a position or a properties bag can be
Vals == {"u", "v"}
\* the board the clients open
TheBoard == "b1"

VARIABLES
  \* --- the AI command agent
  now,      \* Date.now()
  locks,    \* InMemoryCache.locks: lock key -> entry
  timers,   \* pending setTimeout callbacks of acquireLock
  runs,     \* the AI command runs, each at its await point
  \* --- the provider
  db,       \* board_objects: id -> row
  nextId,   \* the next primary key the table hands out
  sub,      \* per client, whether its channel is subscribed at the provider
  feedQ,    \* per client, postgres_changes events on their way
  bcastQ,   \* per client, relay broadcasts on their way
  \* --- the client store (useWhiteboardStore), per client
  store,    \* boardId, objects, selectedObjectIds, _channel, connected
  join,     \* where the client's joinBoard call is
  fetched,  \* the answer of the initial fetch, on its way to the client
  op,       \* the client's store mutation in flight
  \* --- bookkeeping of the model
  ops,      \* store mutations started so far
  budget,   \* store mutations the clients may start
  faulted,  \* clients that were answered an error by the provider
  missed,   \* clients the provider skipped for an event while they were joining
  deduped,  \* whether a create for an id already present was dropped
  raced,    \* objects two clients were updating at the same time
  \* --- the REST API of the backend (routes/boards.js)
  boards,   \* boards: id -> row
  collabs,  \* board_collaborators: the rows
  req,      \* the HTTP request being served, at its middleware
  \* --- the socket server (part_001)
  conns,    \* per socket: its user, its room, its handlers in flight, its relays
  \* --- the rooms of the socket server and the MCP server behind a socket
  socks,        \* per socket: connected, userId, currentBoard, rooms, its handler
  activeUsers,  \* the activeUsers map: board -> set of user keys
  activeCount,  \* per board, the count of the latest active_users event
  inbox,        \* events on their way to the socket of the MCP server
  boardState    \* WhiteboardMCPServer.boardState, the cached objects

aiVars == <<now, locks, timers, runs>>

syncVars == <<db, nextId, sub, feedQ, bcastQ, store, join, fetched, op, ops,
              budget, faulted, missed, deduped, raced>>

\* what the store keeps and the channel carries, the table aside
storeVars == <<sub, feedQ, bcastQ, store, join, fetched, op, ops, budget,
               faulted, missed, deduped, raced>>

ioVars == <<socks, activeUsers, activeCount, inbox, boardState>>

srvVars == <<boards, collabs, req, conns, ioVars>>

vars == <<now, locks, timers, runs, db, nextId, sub, feedQ, bcastQ, store, join,
          fetched, op, ops, budget, faulted, missed, deduped, raced,
          boards, collabs, req, conns,
          socks, activeUsers, activeCount, inbox, boardState>>

(***************************************************************************)
(* InMemoryCache (redis.js)                                                *)
(***************************************************************************)
lockKey(resource) == <<"lock", resource>>

LockKeys == {lockKey(b) : b \in Boards}

\* redis.js:82-83: the lock exists and is still valid
LockIsHeldNoCheck(lk, key, t) == FALSE
LockIsHeldNoExpiry(lk, key, t) == lk[key] # NoLock
LockIsHeld(lk, key, t) ==
  /\ lk[key] # NoLock
  /\ lk[key].expiry > t

\* redis.js:79: `${Date.now()}_${Math.random()}`; the run stands for the
\* random part, which is what makes the value unique
NewLockValue(t, r) == <<t, r>>

\* redis.js:88-91
SetLock(lk, key, value, t, ttl) ==
  [lk EXCEPT ![key] = [value |-> value, expiry |-> t + ttl]]

\* redis.js:108-113: what releaseLock returns
releaseLockReturns(lk, resource, lockValue) ==
  lk[lockKey(resource)] # NoLock /\ lk[lockKey(resource)].value = lockValue

\* redis.js:104-114: delete only the caller's own entry
releaseLockForgets(lk, resource, lockValue) == lk
releaseLockAnyHolder(lk, resource, lockValue) == [lk EXCEPT ![lockKey(resource)] = NoLock]
releaseLock(lk, resource, lockValue) ==
  IF lk[lockKey(resource)] # NoLock /\ lk[lockKey(resource)].value = lockValue
    THEN [lk EXCEPT ![lockKey(resource)] = NoLock]
    ELSE lk

\* redis.js:94-99: the auto-release callback
TimerFire(t) ==
  /\ t \in timers
  /\ now >= t.at
  /\ timers' = timers \ {t}
  /\ locks' = IF locks[t.key] # NoLock /\ locks[t.key].value = t.value
                THEN [locks EXCEPT ![t.key] = NoLock]
                ELSE locks
  /\ UNCHANGED <<now, runs>>
  /\ UNCHANGED <<syncVars, srvVars>>

\* the clock; a timer that is due fires before the next step of the clock
Tick ==
  /\ now + ClockStep <= MaxClock
  /\ \A t \in timers : now < t.at
  /\ now' = now + ClockStep
  /\ UNCHANGED <<locks, timers, runs>>
  /\ UNCHANGED <<syncVars, srvVars>>

(***************************************************************************)
(* AI command runs                                                         *)
(***************************************************************************)
IdleRun ==
  [pc |-> "idle", board |-> "b1", entry |-> "socket", lockValue |-> NoValue,
   i |-> 0, blocks |-> 0, pending |-> 0, stop |-> "end_turn", requests |-> 0,
   writes |-> 0, emits |-> 0, released |-> FALSE,
   success |-> FALSE, message |-> ""]

\* a run is inside its tool-calling loop from the read of the board state to
\* the end of the last round
InLoop(r) == runs[r].pc \in {"state", "llm", "tools"}

\* how a run ends: the value handleAICommand returns / the JSON of the handler.
\* The locals of the call are gone; what it wrote and relayed stays on record.
FinishRollsBack(run, ok, msg) ==
  [run EXCEPT !.pc = "done", !.success = ok, !.message = msg,
              !.lockValue = NoValue, !.i = 0, !.blocks = 0, !.pending = 0,
              !.stop = "end_turn",
              !.writes = IF ok THEN @ ELSE 0]
Finish(run, ok, msg) ==
  [run EXCEPT !.pc = "done", !.success = ok, !.message = msg,
              !.lockValue = NoValue, !.i = 0, !.blocks = 0, !.pending = 0,
              !.stop = "end_turn"]

\* server.js:413-420: the finally block, then the catch
FailAfterLock(r, run, msg) ==
  /\ locks' = releaseLock(locks, run.board, run.lockValue)
  /\ runs' = [runs EXCEPT ![r] =
       [Finish(run, FALSE, msg) EXCEPT
          !.released = releaseLockReturns(locks, run.board, run.lockValue)]]
  /\ UNCHANGED <<now, timers>>

\* api/ai.js:422-428
FailHttp(r, run, msg) ==
  /\ runs' = [runs EXCEPT ![r] = Finish(run, FALSE, msg)]
  /\ UNCHANGED <<now, locks, timers>>

\* run is the record of run r when the exception is thrown
Fail(r, run, msg) ==
  IF run.entry = "socket" THEN FailAfterLock(r, run, msg) ELSE FailHttp(r, run, msg)

\* boards are named in the order AI commands first name them
UsedBoards == {runs[q].board : q \in {q \in Runs : runs[q].pc # "idle"}}
NextBoard == IF UsedBoards = {} THEN "b1" ELSE "b2"

\* a client sends ai_command on its socket, or POSTs /api/ai. Runs are
\* numbered in the order they arrive.
Receive(r, b, e) ==
  /\ runs[r].pc = "idle"
  /\ \A q \in Runs : q < r => runs[q].pc # "idle"
  /\ b \in UsedBoards \cup {NextBoard}
  /\ runs' = [runs EXCEPT ![r] = [IdleRun EXCEPT !.pc = "auth", !.board = b, !.entry = e]]
  /\ UNCHANGED <<now, locks, timers>>
  /\ UNCHANGED <<syncVars, srvVars>>

\* socketHandler ai_command (socket.userId check) / api/ai.js:335-357
Authenticate(r, ok) ==
  /\ runs[r].pc = "auth"
  /\ runs' = [runs EXCEPT ![r] =
       IF ~ok THEN Finish(@, FALSE, AuthMessage)
       ELSE IF @.entry = "socket" THEN [@ EXCEPT !.pc = "acquire"]
       ELSE [@ EXCEPT !.pc = "state"]]
  /\ UNCHANGED <<now, locks, timers>>
  /\ UNCHANGED <<syncVars, srvVars>>

\* server.js:339-342 with redis.js:77-102
AcquireLock(r) ==
  /\ runs[r].pc = "acquire"
  /\ LET key == lockKey(runs[r].board)
         lockValue == NewLockValue(now, r)
     IN IF LockIsHeld(locks, key, now)
          THEN /\ runs' = [runs EXCEPT ![r] = Finish(@, FALSE, BusyMessage)]
               /\ UNCHANGED <<locks, timers>>
          ELSE /\ locks' = SetLock(locks, key, lockValue, now, ttlMs)
               /\ timers' = timers \cup {[key |-> key, value |-> lockValue, at |-> now + ttlMs]}
               /\ runs' = [runs EXCEPT ![r] = [@ EXCEPT !.pc = "state", !.lockValue = lockValue]]
  /\ UNCHANGED now
  /\ UNCHANGED <<syncVars, srvVars>>

\* server.js:345 / api/ai.js:361
GetBoardState(r, ok) ==
  /\ runs[r].pc = "state"
  /\ IF ok
       THEN /\ runs' = [runs EXCEPT ![r] = [@ EXCEPT !.pc = "llm", !.i = 0]]
            /\ UNCHANGED <<now, locks, timers>>
       ELSE Fail(r, runs[r], ErrorMessage)
  /\ UNCHANGED <<syncVars, srvVars>>

\* after the loop: server.js:400-411 writes the audit log, api/ai.js:416 answers
AfterLoop(run) ==
  IF run.entry = "socket" THEN [run EXCEPT !.pc = "audit", !.pending = 0]
  ELSE Finish(run, TRUE, "Done")

\* server.js:356 / api/ai.js:372: the condition of the for loop
LoopContinuesAlways(i) == TRUE
LoopContinues(i) == i < MAX_TOOL_ITERATIONS

\* server.js:357-376 / api/ai.js:373-392: one LLM request and the first break
LLMRequest(r, ok, nTools, stop) ==
  /\ runs[r].pc = "llm"
  /\ LoopContinues(runs[r].i)
  /\ IF ~ok
       THEN Fail(r, [runs[r] EXCEPT !.requests = @ + 1], ErrorMessage)
       ELSE /\ runs' = [runs EXCEPT ![r] =
                 [(IF nTools = 0 \/ stop = "end_turn"
                     THEN AfterLoop([@ EXCEPT !.requests = @ + 1])
                     ELSE [@ EXCEPT !.pc = "tools", !.pending = nTools,
                                    !.requests = @ + 1])
                  EXCEPT !.blocks = nTools, !.stop = stop]]
            /\ UNCHANGED <<now, locks, timers>>
  /\ UNCHANGED <<syncVars, srvVars>>

\* server.js:390-398 / api/ai.js:406-414: the end of a round
EndOfRoundGoesOn(run) ==
  IF LoopContinues(run.i + 1)
    THEN [run EXCEPT !.pc = "llm", !.i = @ + 1, !.pending = 0]
    ELSE AfterLoop([run EXCEPT !.i = @ + 1])
EndOfRound(run) ==
  IF run.stop # "tool_use" THEN AfterLoop(run)
  ELSE IF LoopContinues(run.i + 1)
    THEN [run EXCEPT !.pc = "llm", !.i = @ + 1, !.pending = 0]
    ELSE AfterLoop([run EXCEPT !.i = @ + 1])

\* server.js:423-533 / api/ai.js:206-328: one tool call; a board write is
\* followed by its relay on the socket server only
executeToolCall(run, kind) ==
  IF kind = "write"
    THEN [run EXCEPT !.writes = @ + 1,
                     !.emits = IF run.entry = "socket" THEN @ + 1 ELSE @,
                     !.pending = @ - 1]
    ELSE [run EXCEPT !.pending = @ - 1]

\* what one tool call does to the run
ToolCallOfRun(r, kind, ok) ==
  /\ runs[r].pc = "tools"
  /\ runs[r].pending > 0
  /\ IF kind = "unknown" \/ ~ok
       THEN Fail(r, runs[r], ErrorMessage)
       ELSE /\ runs' = [runs EXCEPT ![r] =
                 LET after == executeToolCall(@, kind)
                 IN IF after.pending = 0 THEN EndOfRound(after) ELSE after]
            /\ UNCHANGED <<now, locks, timers>>

\* one tool call, the content of the table left aside
ToolCall(r, kind, ok) ==
  /\ ToolCallOfRun(r, kind, ok)
  /\ UNCHANGED <<syncVars, srvVars>>

\* server.js:400-415: createAICommand, the return value and the finally block
AuditLog(r, ok) ==
  /\ runs[r].pc = "audit"
  /\ locks' = releaseLock(locks, runs[r].board, runs[r].lockValue)
  /\ runs' = [runs EXCEPT ![r] =
       [(IF ok THEN Finish(@, TRUE, "Done") ELSE Finish(@, FALSE, ErrorMessage)) EXCEPT
          !.released = releaseLockReturns(locks, runs[r].board, runs[r].lockValue)]]
  /\ UNCHANGED <<now, timers>>
  /\ UNCHANGED <<syncVars, srvVars>>


(***************************************************************************)
(* The client store and the provider (AuthContext.jsx)                     *)
(***************************************************************************)
NoRow == [id |-> 0]
NoOp == [kind |-> "none"]
NoFetch == [error |-> FALSE, data |-> <<>>]
EmptyStore ==
  [boardId |-> "null", objects |-> <<>>, selectedObjectIds |-> <<>>,
   channel |-> FALSE, connected |-> FALSE]

\* the keys updateObject copies into its database payload
DbKeys == {"position", "properties"}
\* what the canvas passes to updateObject: a position, a properties bag or both
UpdateSets == UNION {[K -> Vals] : K \in (SUBSET DbKeys) \ {{}}}
\* what the canvas passes to addObject: a new shape where and as it was drawn
NewObjects == {[position |-> "u", properties |-> "u"]}

\* AuthContext.jsx:96-109: a row of board_objects as the store keeps it
mapObject(row) ==
  [id |-> row.id, boardId |-> row.board_id,
   position |-> row.position, properties |-> row.properties,
   createdBy |-> row.created_by]

\* { ...o, ...updates }
Spread(o, updates) ==
  [k \in DOMAIN o \cup DOMAIN updates |->
     IF k \in DOMAIN updates THEN updates[k] ELSE o[k]]

\* state.objects.some(o => o.id === id)
Has(objs, id) == \E i \in DOMAIN objs : objs[i].id = id
Ids(objs) == {objs[i].id : i \in DOMAIN objs}
Without(objs, id) == SelectSeq(objs, LAMBDA o : o.id # id)
WithoutId(ids, id) == SelectSeq(ids, LAMBDA x : x # id)

\* AuthContext.jsx:168-175: postgres_changes INSERT
onInsert(st, payload) ==
  IF Has(st.objects, mapObject(payload.new).id) THEN st
  ELSE [st EXCEPT !.objects = Append(@, mapObject(payload.new))]

\* AuthContext.jsx:185-192: postgres_changes UPDATE
onUpdate(st, payload) ==
  [st EXCEPT !.objects =
     [i \in DOMAIN @ |->
        IF @[i].id = mapObject(payload.new).id THEN mapObject(payload.new) ELSE @[i]]]

\* AuthContext.jsx:202-208: postgres_changes DELETE
onDelete(st, payload) ==
  [st EXCEPT !.objects = Without(@, payload.old.id),
             !.selectedObjectIds = WithoutId(@, payload.old.id)]

\* AuthContext.jsx:220-225: broadcast object_created
onObjectCreated(st, payload) ==
  IF Has(st.objects, payload.object.id) THEN st
  ELSE [st EXCEPT !.objects = Append(@, payload.object)]

\* AuthContext.jsx:226-232: broadcast object_updated
onObjectUpdatedOldWins(st, payload) ==
  [st EXCEPT !.objects =
     [i \in DOMAIN @ |->
        IF @[i].id = payload.objectId THEN Spread(payload.updates, @[i]) ELSE @[i]]]
onObjectUpdated(st, payload) ==
  [st EXCEPT !.objects =
     [i \in DOMAIN @ |->
        IF @[i].id = payload.objectId THEN Spread(@[i], payload.updates) ELSE @[i]]]

\* AuthContext.jsx:233-238: broadcast object_deleted
onObjectDeleted(st, payload) ==
  [st EXCEPT !.objects = Without(@, payload.objectId),
             !.selectedObjectIds = WithoutId(@, payload.objectId)]

\* AuthContext.jsx:315-318: the add of addObject
addObjectSetNoCheck(st, mapped) == [st EXCEPT !.objects = Append(@, mapped)]
addObjectSet(st, mapped) ==
  IF Has(st.objects, mapped.id) THEN st
  ELSE [st EXCEPT !.objects = Append(@, mapped)]

\* AuthContext.jsx:329-333: the optimistic update of updateObject
optimisticUpdate(st, objectId, updates) ==
  [st EXCEPT !.objects =
     [i \in DOMAIN @ |->
        IF @[i].id = objectId THEN Spread(@[i], updates) ELSE @[i]]]

\* AuthContext.jsx:336-338: the database payload of updateObject
dbUpdatesOf(updates) ==
  [k \in DOMAIN updates \cap DbKeys |-> updates[k]]

\* obj.properties.fromId / toId name the object (part_004:1008-1011)
References(o, objectId) ==
  /\ "fromId" \in DOMAIN o.properties
  /\ (o.properties.fromId = objectId \/ o.properties.toId = objectId)

\* AuthContext.jsx:358-361: the optimistic delete of deleteObject
optimisticDeleteKeepsSelection(st, objectId) ==
  [st EXCEPT !.objects = Without(@, objectId)]
optimisticDeleteCascade(st, objectId) ==
  [st EXCEPT !.objects = SelectSeq(@, LAMBDA o : o.id # objectId /\ ~References(o, objectId)),
             !.selectedObjectIds = WithoutId(@, objectId)]
optimisticDelete(st, objectId) ==
  [st EXCEPT !.objects = Without(@, objectId),
             !.selectedObjectIds = WithoutId(@, objectId)]

\* AuthContext.jsx:321-322: addObject relays once its insert has succeeded
addObjectRelays(st) == st.channel /\ st.connected

\* AuthContext.jsx:345-350: updateObject relays unless the write failed
updateObjectRelaysAlways(error, st) == st.channel /\ st.connected
updateObjectRelays(error, st) == ~error /\ st.channel /\ st.connected

\* AuthContext.jsx:368-373: deleteObject relays unless the write failed
deleteObjectRelays(error, st) == ~error /\ st.channel /\ st.connected

\* the provider sends a committed change to the channels subscribed to it
Feed(ev) ==
  /\ feedQ' = [c \in Clients |-> IF sub[c] THEN Append(feedQ[c], ev) ELSE feedQ[c]]
  /\ missed' = missed \cup {c \in Clients : join[c] \in {"fetched", "subscribing"}}

\* channel.send of client c: the provider relays to the other subscribers
Relay(c, ev) ==
  /\ bcastQ' = [d \in Clients |->
                  IF d # c /\ sub[d] THEN Append(bcastQ[d], ev) ELSE bcastQ[d]]
  /\ missed' = missed \cup {d \in Clients \ {c} : join[d] \in {"fetched", "subscribing"}}

\* the rows of the board, ordered as the initial fetch orders them
RECURSIVE RowsFrom(_)
RowsFrom(i) ==
  IF i > MaxObjs THEN <<>>
  ELSE IF db[i] = NoRow THEN RowsFrom(i + 1)
  ELSE <<db[i]>> \o RowsFrom(i + 1)

\* AuthContext.jsx:134-140: joinBoard up to its fetch. Clients are numbered in
\* the order they open the board.
joinBoard(c) ==
  /\ join[c] = "out"
  /\ \A d \in Clients : d < c => join[d] # "out"
  /\ store' = [store EXCEPT ![c] =
       [@ EXCEPT !.boardId = TheBoard, !.objects = <<>>, !.connected = FALSE]]
  /\ join' = [join EXCEPT ![c] = "fetching"]
  /\ UNCHANGED <<db, nextId, sub, feedQ, bcastQ, fetched, op, ops, budget, faulted, missed, deduped, raced>>
  /\ UNCHANGED <<aiVars, srvVars>>

\* AuthContext.jsx:143-148: the provider answers the select
FetchServe(c, ok) ==
  /\ join[c] = "fetching"
  /\ fetched' = [fetched EXCEPT ![c] =
       IF ok THEN [error |-> FALSE, data |-> RowsFrom(1)]
       ELSE [error |-> TRUE, data |-> <<>>]]
  /\ join' = [join EXCEPT ![c] = "fetched"]
  /\ UNCHANGED <<db, nextId, sub, feedQ, bcastQ, store, op, ops, budget, faulted, missed, deduped, raced>>
  /\ UNCHANGED <<aiVars, srvVars>>

\* AuthContext.jsx:150-277: the rest of joinBoard: the objects of the answer,
\* the channel with its handlers, subscribe()
FetchReturn(c) ==
  /\ join[c] = "fetched"
  /\ store' = [store EXCEPT ![c] =
       [@ EXCEPT !.objects = IF fetched[c].error THEN @
                             ELSE [i \in DOMAIN fetched[c].data |-> mapObject(fetched[c].data[i])],
                 !.channel = TRUE]]
  /\ faulted' = IF fetched[c].error THEN faulted \cup {c} ELSE faulted
  /\ fetched' = [fetched EXCEPT ![c] = NoFetch]
  /\ join' = [join EXCEPT ![c] = "subscribing"]
  /\ UNCHANGED <<db, nextId, sub, feedQ, bcastQ, op, ops, budget, missed, deduped, raced>>
  /\ UNCHANGED <<aiVars, srvVars>>

\* AuthContext.jsx:259-271: the provider has subscribed the channel
Subscribed(c) ==
  /\ join[c] = "subscribing"
  /\ sub' = [sub EXCEPT ![c] = TRUE]
  /\ store' = [store EXCEPT ![c] = [@ EXCEPT !.connected = TRUE]]
  /\ join' = [join EXCEPT ![c] = "joined"]
  /\ UNCHANGED <<db, nextId, feedQ, bcastQ, fetched, op, ops, budget, faulted, missed, deduped, raced>>
  /\ UNCHANGED <<aiVars, srvVars>>

\* AuthContext.jsx:280-286: leaveBoard, which the cleanup of AppContent calls
\* once, when the component unmounts (App.jsx:53-58); removeChannel ends the
\* subscription of the channel the store holds, if it holds one
leaveBoard(c) ==
  /\ join[c] # "out"
  /\ store[c].boardId # "null"
  /\ sub' = [sub EXCEPT ![c] = IF store[c].channel THEN FALSE ELSE @]
  /\ feedQ' = [feedQ EXCEPT ![c] = IF store[c].channel THEN <<>> ELSE @]
  /\ bcastQ' = [bcastQ EXCEPT ![c] = IF store[c].channel THEN <<>> ELSE @]
  /\ store' = [store EXCEPT ![c] =
       [@ EXCEPT !.channel = FALSE, !.boardId = "null", !.objects = <<>>,
                 !.connected = FALSE]]
  /\ UNCHANGED <<db, nextId, join, fetched, op, ops, budget, faulted, missed, deduped, raced>>
  /\ UNCHANGED <<aiVars, srvVars>>

\* AuthContext.jsx:290-305: addObject sends its insert
addObject(c, object) ==
  /\ op[c] = NoOp
  /\ join[c] # "out"
  /\ ops < budget
  /\ nextId <= MaxObjs
  /\ op' = [op EXCEPT ![c] =
       [kind |-> "add", status |-> "sent", object |-> object,
        boardId |-> store[c].boardId, data |-> NoRow]]
  /\ ops' = ops + 1
  /\ UNCHANGED <<db, nextId, sub, feedQ, bcastQ, store, join, fetched, budget, faulted, missed, deduped, raced>>
  /\ UNCHANGED <<aiVars, srvVars>>

\* the provider runs the insert
DbInsert(c, ok) ==
  /\ op[c].kind = "add" /\ op[c].status = "sent"
  /\ IF ok /\ nextId <= MaxObjs
       THEN LET row == [id |-> nextId, board_id |-> op[c].boardId,
                        position |-> op[c].object.position,
                        properties |-> op[c].object.properties,
                        created_by |-> c]
            IN /\ db' = [db EXCEPT ![nextId] = row]
               /\ nextId' = nextId + 1
               /\ Feed([event |-> "INSERT", new |-> row])
               /\ op' = [op EXCEPT ![c] = [@ EXCEPT !.status = "ok", !.data = row]]
       ELSE /\ op' = [op EXCEPT ![c] = [@ EXCEPT !.status = "error"]]
            /\ UNCHANGED <<db, nextId, feedQ, missed>>
  /\ UNCHANGED <<sub, bcastQ, store, join, fetched, ops, budget, faulted, deduped, raced>>
  /\ UNCHANGED <<aiVars, srvVars>>

\* AuthContext.jsx:307-325: addObject after its insert
addObjectReturn(c) ==
  /\ op[c].kind = "add" /\ op[c].status \in {"ok", "error"}
  /\ op' = [op EXCEPT ![c] = NoOp]
  /\ IF op[c].status = "error"
       THEN /\ faulted' = faulted \cup {c}
            /\ UNCHANGED <<store, bcastQ, missed, deduped>>
       ELSE LET mapped == mapObject(op[c].data)
                after == addObjectSet(store[c], mapped)
            IN /\ store' = [store EXCEPT ![c] = after]
               /\ deduped' = (deduped \/ Has(store[c].objects, mapped.id))
               /\ IF addObjectRelays(after)
                    THEN Relay(c, [event |-> "object_created", payload |-> [object |-> mapped]])
                    ELSE UNCHANGED <<bcastQ, missed>>
               /\ UNCHANGED faulted
  /\ UNCHANGED <<db, nextId, sub, feedQ, join, fetched, ops, budget, raced>>
  /\ UNCHANGED <<aiVars, srvVars>>

\* AuthContext.jsx:327-343: updateObject up to its write
updateObject(c, objectId, updates) ==
  /\ op[c] = NoOp
  /\ Has(store[c].objects, objectId)
  /\ ops < budget
  /\ store' = [store EXCEPT ![c] = optimisticUpdate(@, objectId, updates)]
  /\ op' = [op EXCEPT ![c] =
       [kind |-> "update", status |-> "sent", objectId |-> objectId,
        updates |-> updates, dbUpdates |-> dbUpdatesOf(updates)]]
  /\ ops' = ops + 1
  /\ raced' = IF \E d \in Clients \ {c} : op[d].kind = "update" /\ op[d].objectId = objectId
                THEN raced \cup {objectId} ELSE raced
  /\ UNCHANGED <<db, nextId, sub, feedQ, bcastQ, join, fetched, budget, faulted, missed, deduped>>
  /\ UNCHANGED <<aiVars, srvVars>>

\* the provider runs the update; an id that matches no row is no error
DbUpdate(c, ok) ==
  /\ op[c].kind = "update" /\ op[c].status = "sent"
  /\ op' = [op EXCEPT ![c] = [@ EXCEPT !.status = IF ok THEN "ok" ELSE "error"]]
  /\ IF ok /\ db[op[c].objectId] # NoRow
       THEN LET row == Spread(db[op[c].objectId], op[c].dbUpdates)
            IN /\ db' = [db EXCEPT ![op[c].objectId] = row]
               /\ Feed([event |-> "UPDATE", new |-> row])
       ELSE UNCHANGED <<db, feedQ, missed>>
  /\ UNCHANGED <<nextId, sub, bcastQ, store, join, fetched, ops, budget, faulted, deduped, raced>>
  /\ UNCHANGED <<aiVars, srvVars>>

\* AuthContext.jsx:345-354: updateObject after its write
updateObjectReturn(c) ==
  /\ op[c].kind = "update" /\ op[c].status \in {"ok", "error"}
  /\ op' = [op EXCEPT ![c] = NoOp]
  /\ faulted' = IF op[c].status = "error" THEN faulted \cup {c} ELSE faulted
  /\ IF updateObjectRelays(op[c].status = "error", store[c])
       THEN Relay(c, [event |-> "object_updated",
                      payload |-> [objectId |-> op[c].objectId, updates |-> op[c].updates]])
       ELSE UNCHANGED <<bcastQ, missed>>
  /\ UNCHANGED <<db, nextId, sub, feedQ, store, join, fetched, ops, budget, deduped, raced>>
  /\ UNCHANGED <<aiVars, srvVars>>

\* AuthContext.jsx:356-366: deleteObject up to its write
deleteObject(c, objectId) ==
  /\ op[c] = NoOp
  /\ Has(store[c].objects, objectId)
  /\ ops < budget
  /\ store' = [store EXCEPT ![c] = optimisticDelete(@, objectId)]
  /\ op' = [op EXCEPT ![c] = [kind |-> "delete", status |-> "sent", objectId |-> objectId]]
  /\ ops' = ops + 1
  /\ UNCHANGED <<db, nextId, sub, feedQ, bcastQ, join, fetched, budget, faulted, missed, deduped, raced>>
  /\ UNCHANGED <<aiVars, srvVars>>

\* the provider runs the delete; an id that matches no row is no error
DbDelete(c, ok) ==
  /\ op[c].kind = "delete" /\ op[c].status = "sent"
  /\ op' = [op EXCEPT ![c] = [@ EXCEPT !.status = IF ok THEN "ok" ELSE "error"]]
  /\ IF ok /\ db[op[c].objectId] # NoRow
       THEN /\ db' = [db EXCEPT ![op[c].objectId] = NoRow]
            /\ Feed([event |-> "DELETE", old |-> [id |-> op[c].objectId]])
       ELSE UNCHANGED <<db, feedQ, missed>>
  /\ UNCHANGED <<nextId, sub, bcastQ, store, join, fetched, ops, budget, faulted, deduped, raced>>
  /\ UNCHANGED <<aiVars, srvVars>>

\* AuthContext.jsx:368-377: deleteObject after its write
deleteObjectReturn(c) ==
  /\ op[c].kind = "delete" /\ op[c].status \in {"ok", "error"}
  /\ op' = [op EXCEPT ![c] = NoOp]
  /\ faulted' = IF op[c].status = "error" THEN faulted \cup {c} ELSE faulted
  /\ IF deleteObjectRelays(op[c].status = "error", store[c])
       THEN Relay(c, [event |-> "object_deleted", payload |-> [objectId |-> op[c].objectId]])
       ELSE UNCHANGED <<bcastQ, missed>>
  /\ UNCHANGED <<db, nextId, sub, feedQ, store, join, fetched, ops, budget, deduped, raced>>
  /\ UNCHANGED <<aiVars, srvVars>>

\* AuthContext.jsx:379: setSelectedObjects, called by the canvas with [] for
\* a click on the empty stage and with [obj.id] for a click on a drawn object
\* (WhiteboardCanvas.jsx:33-37, 181-185)
setSelectedObjects(c, ids) ==
  /\ \A i \in DOMAIN ids : Has(store[c].objects, ids[i])
  /\ store[c].selectedObjectIds # ids
  /\ store' = [store EXCEPT ![c] = [@ EXCEPT !.selectedObjectIds = ids]]
  /\ UNCHANGED <<db, nextId, sub, feedQ, bcastQ, join, fetched, op, ops, budget, faulted,
                 missed, deduped, raced>>
  /\ UNCHANGED <<aiVars, srvVars>>

\* a postgres_changes event reaches the client: AuthContext.jsx:160-209
DeliverFeed(c) ==
  /\ feedQ[c] # <<>>
  /\ LET ev == Head(feedQ[c])
     IN /\ store' = [store EXCEPT ![c] =
             IF ev.event = "INSERT" THEN onInsert(@, ev)
             ELSE IF ev.event = "UPDATE" THEN onUpdate(@, ev)
             ELSE onDelete(@, ev)]
        /\ deduped' = (deduped \/ (ev.event = "INSERT" /\ Has(store[c].objects, ev.new.id)))
  /\ feedQ' = [feedQ EXCEPT ![c] = Tail(@)]
  /\ UNCHANGED <<db, nextId, sub, bcastQ, join, fetched, op, ops, budget, faulted, missed, raced>>
  /\ UNCHANGED <<aiVars, srvVars>>

\* a relay broadcast reaches the client: AuthContext.jsx:220-238
DeliverBroadcast(c) ==
  /\ bcastQ[c] # <<>>
  /\ LET ev == Head(bcastQ[c])
     IN /\ store' = [store EXCEPT ![c] =
             IF ev.event = "object_created" THEN onObjectCreated(@, ev.payload)
             ELSE IF ev.event = "object_updated" THEN onObjectUpdated(@, ev.payload)
             ELSE onObjectDeleted(@, ev.payload)]
        /\ deduped' = (deduped \/ (ev.event = "object_created"
                                     /\ Has(store[c].objects, ev.payload.object.id)))
  /\ bcastQ' = [bcastQ EXCEPT ![c] = Tail(@)]
  /\ UNCHANGED <<db, nextId, sub, feedQ, join, fetched, op, ops, budget, faulted, missed, raced>>
  /\ UNCHANGED <<aiVars, srvVars>>

(***************************************************************************)
(* The REST API: the middleware (supabase.js 415-520) and routes/boards.js *)
(* One request is served at a time.                                        *)
(***************************************************************************)
\* registered users
MaxUsers == 2
Users == 1..MaxUsers
\* req.user is undefined, or the request has no Authorization header
NoUser == 0
\* a Bearer token the provider rejects
BadToken == -1
Tokens == Users \cup {NoUser, BadToken}
\* getBoard answers null
NoBoard == [id |-> ""]
\* req.userRole is undefined
NoRole == ""
\* part_010:36: CHECK (role IN ('owner', 'admin', 'editor', 'viewer'))
Roles == {"viewer", "editor", "admin", "owner"}

\* supabase.js:359-370
mapBoard(data) == [id |-> data.id, ownerId |-> data.owner_id, isPublic |-> data.is_public]

\* supabase.js:387-396
mapCollaborator(data) == [boardId |-> data.board_id, userId |-> data.user_id, role |-> data.role]

\* supabase.js:63-76
getBoard(tbl, boardId) ==
  IF tbl[boardId] = NoBoard THEN NoBoard ELSE mapBoard(tbl[boardId])

\* supabase.js:195-203
getCollaborators(rows, boardId) ==
  {mapCollaborator(c) : c \in {x \in rows : x.board_id = boardId}}

\* part_010:38: UNIQUE(board_id, user_id)
UniqueCollaborators(rows) ==
  \A x, y \in rows : (x.board_id = y.board_id /\ x.user_id = y.user_id) => x = y

\* supabase.js:498-503
roleHierarchy == [viewer |-> 1, editor |-> 2, admin |-> 3, owner |-> 4]

\* roleHierarchy[role] || 0
Level(role) == IF role \in DOMAIN roleHierarchy THEN roleHierarchy[role] ELSE 0

\* supabase.js:505-519: whether requireRole(minRole) calls next()
requireRoleStrict(userRole, minRole) == Level(userRole) > Level(minRole)
requireRole(userRole, minRole) == Level(userRole) >= Level(minRole)

\* supabase.js:455-491: what checkBoardAccess decides from what it has read;
\* status 0 stands for next()
checkBoardAccessPublicFirst(userId, board, collaborators) ==
  IF userId = NoUser THEN [status |-> 401, userRole |-> NoRole]
  ELSE IF board = NoBoard THEN [status |-> 404, userRole |-> NoRole]
  ELSE IF board.ownerId = userId THEN [status |-> 0, userRole |-> "owner"]
  ELSE IF board.isPublic THEN [status |-> 0, userRole |-> "viewer"]
  ELSE IF \E c \in collaborators : c.userId = userId
    THEN [status |-> 0,
          userRole |-> (CHOOSE c \in collaborators : c.userId = userId).role]
  ELSE [status |-> 403, userRole |-> NoRole]
checkBoardAccess(userId, board, collaborators) ==
  IF userId = NoUser THEN [status |-> 401, userRole |-> NoRole]
  ELSE IF board = NoBoard THEN [status |-> 404, userRole |-> NoRole]
  ELSE IF board.ownerId = userId THEN [status |-> 0, userRole |-> "owner"]
  ELSE IF \E c \in collaborators : c.userId = userId
    THEN [status |-> 0,
          userRole |-> (CHOOSE c \in collaborators : c.userId = userId).role]
  ELSE IF board.isPublic THEN [status |-> 0, userRole |-> "viewer"]
  ELSE [status |-> 403, userRole |-> NoRole]

\* routes/boards.js: the routes that take a board id
Routes == {"getBoard", "patchBoard", "deleteBoard", "addCollaborator",
           "removeCollaborator", "getObjects"}

\* boards.js:80, 203: the routes behind optionalAuth; the others are behind
\* authenticate
OptionalAuthRoutes == {"getBoard", "getObjects"}

\* boards.js:105, 132, 152, 187: the argument of requireRole in the chain of
\* the route, NoRole where the chain has none
minRoleOf(route) ==
  CASE route \in {"patchBoard", "addCollaborator", "removeCollaborator"} -> "admin"
    [] route = "deleteBoard" -> "owner"
    [] OTHER -> NoRole

IdleReq ==
  [pc |-> "idle", route |-> "getBoard", boardId |-> TheBoard, token |-> NoUser,
   user |-> NoUser, userRole |-> NoRole, board |-> NoBoard, collaborators |-> {},
   status |-> 0, invoked |-> FALSE]

\* res.status(code).json(...): the request is answered
Respond(r, code) == [r EXCEPT !.pc = "done", !.status = code]

\* a request arrives at the router
HttpRequest(route, boardId, token) ==
  /\ req.pc \in {"idle", "done"}
  /\ req' = [IdleReq EXCEPT !.pc = "auth", !.route = route, !.boardId = boardId,
                            !.token = token]
  /\ UNCHANGED <<boards, collabs, conns, aiVars, ioVars, syncVars>>

\* supabase.js:417-453: authenticate / optionalAuth; ok is whether
\* verifyIdToken accepts the token
Auth(ok) ==
  /\ req.pc = "auth"
  /\ req' =
       IF req.route \in OptionalAuthRoutes
         THEN [req EXCEPT !.pc = "access",
                          !.user = IF req.token \in Users /\ ok THEN req.token ELSE NoUser]
         ELSE IF req.token \in Users /\ ok
           THEN [req EXCEPT !.pc = "access", !.user = req.token]
           ELSE Respond(req, 401)
  /\ UNCHANGED <<boards, collabs, conns, aiVars, ioVars, syncVars>>

\* supabase.js:455-496: checkBoardAccess; okBoard and okCollab are whether
\* the two reads succeed
CheckBoardAccess(okBoard, okCollab) ==
  /\ req.pc = "access"
  /\ LET userId == req.user
         board == getBoard(boards, req.boardId)
         collaborators == getCollaborators(collabs, req.boardId)
         readsBoard == userId # NoUser
         readsCollab == readsBoard /\ board # NoBoard /\ board.ownerId # userId
         d == checkBoardAccess(userId, board, collaborators)
     IN req' =
          IF (readsBoard /\ ~okBoard) \/ (readsCollab /\ ~okCollab)
            THEN Respond(req, 500)
          ELSE IF d.status # 0
            THEN Respond([req EXCEPT !.board = IF readsBoard THEN board ELSE NoBoard,
                                     !.collaborators = IF readsCollab THEN collaborators ELSE {}],
                         d.status)
          ELSE [req EXCEPT !.pc = IF minRoleOf(req.route) = NoRole THEN "handler" ELSE "role",
                           !.board = board,
                           !.collaborators = IF readsCollab THEN collaborators ELSE {},
                           !.userRole = d.userRole]
  /\ UNCHANGED <<boards, collabs, conns, aiVars, ioVars, syncVars>>

\* supabase.js:505-519: the middleware requireRole(minRole) returns
RequireRole ==
  /\ req.pc = "role"
  /\ req' = IF requireRole(req.userRole, minRoleOf(req.route))
              THEN [req EXCEPT !.pc = "handler"]
              ELSE Respond(req, 403)
  /\ UNCHANGED <<boards, collabs, conns, aiVars, ioVars, syncVars>>

\* boards.js:80-95, 203-206: GET /:boardId and GET /:boardId/objects
HandleRead(ok) ==
  /\ req.pc = "handler"
  /\ req.route \in {"getBoard", "getObjects"}
  /\ req' = Respond([req EXCEPT !.invoked = TRUE], IF ok THEN 200 ELSE 500)
  /\ UNCHANGED <<boards, collabs, conns, aiVars, ioVars, syncVars>>

\* boards.js:101-122: PATCH /:boardId; isPublic is the flag of the body
HandlePatch(ok, isPublic) ==
  /\ req.pc = "handler"
  /\ req.route = "patchBoard"
  /\ req' = Respond([req EXCEPT !.invoked = TRUE], IF ok THEN 200 ELSE 500)
  /\ boards' = IF ok /\ boards[req.boardId] # NoBoard
                 THEN [boards EXCEPT ![req.boardId].is_public = isPublic]
                 ELSE boards
  /\ UNCHANGED <<collabs, conns, aiVars, ioVars, syncVars>>

\* supabase.js:88-102: deleteBoard; okObjects and okBoard are whether the two
\* deletes succeed. part_010:19-38: deleting a board row cascades to its
\* objects and its collaborators.
deleteBoard(tbl, objects, rows, boardId, okObjects, okBoard) ==
  LET gone == [i \in DOMAIN objects |->
                 IF objects[i] # NoRow /\ objects[i].board_id = boardId
                   THEN NoRow ELSE objects[i]]
  IN [boards |-> IF okBoard THEN [tbl EXCEPT ![boardId] = NoBoard] ELSE tbl,
      objects |-> IF okObjects \/ okBoard THEN gone ELSE objects,
      collabs |-> IF okBoard THEN {c \in rows : c.board_id # boardId} ELSE rows,
      thrown |-> ~okBoard]

\* boards.js:128-142: DELETE /:boardId
HandleDelete(okObjects, okBoard) ==
  /\ req.pc = "handler"
  /\ req.route = "deleteBoard"
  /\ LET d == deleteBoard(boards, db, collabs, req.boardId, okObjects, okBoard)
     IN /\ boards' = d.boards
        /\ db' = d.objects
        /\ collabs' = d.collabs
        /\ req' = Respond([req EXCEPT !.invoked = TRUE], IF d.thrown THEN 500 ELSE 200)
  /\ UNCHANGED <<nextId, storeVars, aiVars, ioVars, conns>>

\* boards.js:148-177: POST /:boardId/collaborators; userId and role are the
\* body, NoUser and NoRole where it leaves them out
HandleAddCollaborator(ok, userId, role) ==
  /\ req.pc = "handler"
  /\ req.route = "addCollaborator"
  /\ LET row == [board_id |-> req.boardId, user_id |-> userId,
                 role |-> IF role = NoRole THEN "editor" ELSE role]
         inserted == /\ ok
                     /\ boards[req.boardId] # NoBoard
                     /\ UniqueCollaborators(collabs \cup {row})
     IN IF userId = NoUser
          THEN /\ req' = Respond([req EXCEPT !.invoked = TRUE], 400)
               /\ collabs' = collabs
          ELSE /\ req' = Respond([req EXCEPT !.invoked = TRUE],
                                 IF inserted THEN 201 ELSE 500)
               /\ collabs' = IF inserted THEN collabs \cup {row} ELSE collabs
  /\ UNCHANGED <<boards, conns, aiVars, ioVars, syncVars>>

\* boards.js:183-197: DELETE /:boardId/collaborators/:userId
HandleRemoveCollaborator(ok, userId) ==
  /\ req.pc = "handler"
  /\ req.route = "removeCollaborator"
  /\ req' = Respond([req EXCEPT !.invoked = TRUE], IF ok THEN 200 ELSE 500)
  /\ collabs' = IF ok
                  THEN {c \in collabs : ~(c.board_id = req.boardId /\ c.user_id = userId)}
                  ELSE collabs
  /\ UNCHANGED <<boards, conns, aiVars, ioVars, syncVars>>

(***************************************************************************)
(* The socket handlers (part_001)                                          *)
(***************************************************************************)
\* socket connections
MaxConns == 1
\* events one connection sends
MaxEvents == 2
Conns == 1..MaxConns
SocketEvents == {"create_object", "update_object", "delete_object"}
\* what an update_object event carries
SocketUpdates == [position |-> "v"]

ClosedConn ==
  [state |-> "closed", userId |-> NoUser, currentBoard |-> "", received |-> 0,
   inflight |-> {}, relays |-> <<>>]

\* handlers that have called createObject and wait for its answer
CreatesInFlight ==
  {<<c, h>> \in Conns \X UNION {conns[c].inflight : c \in Conns} :
     h \in conns[c].inflight /\ h.event = "create_object"}

\* part_001:9-25: the connection handler; ok is whether verifyIdToken
\* accepts the token of the handshake
Connect(c, token, ok) ==
  /\ conns[c].state = "closed"
  /\ conns' = [conns EXCEPT ![c] =
       [@ EXCEPT !.state = "open",
                 !.userId = IF token \in Users /\ ok THEN token ELSE NoUser]]
  /\ UNCHANGED <<boards, collabs, req, aiVars, ioVars, syncVars>>

\* part_001:28-31: join_board
JoinBoard(c, boardId) ==
  /\ conns[c].state = "open"
  /\ conns[c].currentBoard # boardId
  /\ conns' = [conns EXCEPT ![c] = [@ EXCEPT !.currentBoard = boardId]]
  /\ UNCHANGED <<boards, collabs, req, aiVars, ioVars, syncVars>>

\* part_001:80-132: an event arrives and its handler runs up to its await:
\* the write is on its way to the provider
SocketEvent(c, event, objectId, boardId) ==
  /\ conns[c].state = "open"
  /\ conns[c].received < MaxEvents
  /\ event = "create_object" => nextId + Cardinality(CreatesInFlight) <= MaxObjs
  /\ conns' = [conns EXCEPT ![c] =
       [@ EXCEPT !.received = @ + 1,
                 !.inflight = @ \cup
                    {[seq |-> conns[c].received + 1, event |-> event,
                      objectId |-> IF event = "create_object" THEN 0 ELSE objectId,
                      boardId |-> IF event = "create_object" THEN boardId ELSE ""]}]]
  /\ UNCHANGED <<boards, collabs, req, aiVars, ioVars, syncVars>>

\* part_001:87-90, 104-108, 120-123: the relay of a handler whose write
\* succeeded, and the room it goes to
socketRelay(conn, h) ==
  [seq |-> h.seq, event |-> h.event,
   room |-> IF h.event = "create_object" THEN h.boardId ELSE conn.currentBoard]

\* the provider answers the write of handler h and the handler goes on to its
\* end: part_001:82-96 (create), 101-113 (update), 118-130 (delete), with
\* createObject / updateObject / deleteObject of supabase.js:105-153
SocketWrite(c, h, ok) ==
  /\ h \in conns[c].inflight
  /\ LET written == IF h.event = "create_object"
                      THEN ok /\ boards[h.boardId] # NoBoard
                      ELSE ok
     IN /\ conns' = [conns EXCEPT ![c] =
             [@ EXCEPT !.inflight = @ \ {h},
                       !.relays = IF written THEN Append(@, socketRelay(conns[c], h)) ELSE @]]
        /\ IF written /\ h.event = "create_object"
             THEN LET row == [id |-> nextId, board_id |-> h.boardId, position |-> "u",
                              properties |-> "u", created_by |-> conns[c].userId]
                  IN /\ db' = [db EXCEPT ![nextId] = row]
                     /\ nextId' = nextId + 1
                     /\ Feed([event |-> "INSERT", new |-> row])
           ELSE IF written /\ db[h.objectId] # NoRow /\ h.event = "update_object"
             THEN LET row == Spread(db[h.objectId], SocketUpdates)
                  IN /\ db' = [db EXCEPT ![h.objectId] = row]
                     /\ Feed([event |-> "UPDATE", new |-> row])
                     /\ UNCHANGED nextId
           ELSE IF written /\ db[h.objectId] # NoRow /\ h.event = "delete_object"
             THEN /\ db' = [db EXCEPT ![h.objectId] = NoRow]
                  /\ Feed([event |-> "DELETE", old |-> [id |-> h.objectId]])
                  /\ UNCHANGED nextId
           ELSE UNCHANGED <<db, nextId, feedQ, missed>>
  /\ UNCHANGED <<sub, bcastQ, store, join, fetched, op, ops, budget, faulted, deduped, raced>>
  /\ UNCHANGED <<boards, collabs, req, aiVars, ioVars>>

(***************************************************************************)
(* The rooms of the socket server (part_001) and the MCP server that       *)
(* listens to one of them (part_009)                                       *)
(***************************************************************************)
\* sockets that connect to the server
MaxSocks == 2
Socks == 1..MaxSocks
\* the socket the MCP server opens: part_009:49-54
Mcp == 1
\* part_009:26
DEFAULT_BOARD_ID == "b1"

NoHandler == [kind |-> "", board |-> "", step |-> "", objects |-> <<>>, id |-> 0]
NewSock ==
  [state |-> "new", userId |-> NoUser, currentBoard |-> "", rooms |-> {},
   received |-> 0, handler |-> NoHandler]

\* part_001:38, 66, 195: socket.userId || socket.id
userKey(s) ==
  IF socks[s].userId # NoUser THEN <<"user", socks[s].userId>> ELSE <<"socket", s>>

\* Set.prototype.add and delete on the entry of the activeUsers map
activeUsersAdd(boardId, key) ==
  [b \in DOMAIN activeUsers \cup {boardId} |->
     IF b = boardId
       THEN (IF b \in DOMAIN activeUsers THEN activeUsers[b] ELSE {}) \cup {key}
       ELSE activeUsers[b]]
activeUsersDelete(boardId, key) ==
  [activeUsers EXCEPT ![boardId] = @ \ {key}]

\* io.to(room).emit('active_users', {count: size}) with the map as it is in m
emitActiveUsers(m, boardId) ==
  [b \in DOMAIN activeCount \cup {boardId} |->
     IF b = boardId THEN Cardinality(m[boardId]) ELSE activeCount[b]]

\* supabase.js:125-135: getObjects
getObjects(boardId) ==
  LET rows == SelectSeq(RowsFrom(1), LAMBDA row : row.board_id = boardId)
  IN [i \in DOMAIN rows |-> mapObject(rows[i])]

\* part_001:9-25: the connection handler of the rooms; ok is whether
\* verifyIdToken accepts the token of the handshake
connection(s, token, ok) ==
  /\ socks[s].state = "new"
  /\ socks' = [socks EXCEPT ![s] =
       [@ EXCEPT !.state = "open",
                 !.userId = IF token \in Users /\ ok THEN token ELSE NoUser]]
  /\ UNCHANGED <<activeUsers, activeCount, inbox, boardState>>
  /\ UNCHANGED <<boards, collabs, req, conns, aiVars, syncVars>>

\* part_001:28-41: join_board up to its await of getObjects
join_board(s, boardId) ==
  /\ socks[s].state = "open"
  /\ socks[s].handler = NoHandler
  /\ socks[s].received < MaxEvents
  /\ socks' = [socks EXCEPT ![s] =
       [@ EXCEPT !.rooms = @ \cup {boardId},
                 !.currentBoard = boardId,
                 !.received = @ + 1,
                 !.handler = [NoHandler EXCEPT !.kind = "join_board", !.board = boardId,
                                                !.step = "getObjects"]]]
  /\ activeUsers' = activeUsersAdd(boardId, userKey(s))
  /\ UNCHANGED <<activeCount, inbox, boardState>>
  /\ UNCHANGED <<boards, collabs, req, conns, aiVars, syncVars>>

\* the provider runs the query of getObjects; a failed query throws into the
\* catch of part_001:55-58
join_getObjects(s, ok) ==
  /\ socks[s].handler.kind = "join_board"
  /\ socks[s].handler.step = "getObjects"
  /\ socks' = [socks EXCEPT ![s] =
       [@ EXCEPT !.handler =
          IF ok THEN [@ EXCEPT !.step = "emit", !.objects = getObjects(socks[s].handler.board)]
          ELSE NoHandler]]
  /\ UNCHANGED <<activeUsers, activeCount, inbox, boardState>>
  /\ UNCHANGED <<boards, collabs, req, conns, aiVars, syncVars>>

\* part_001:42-54: join_board after its await: board_state to the socket,
\* active_users to the room
join_emit(s) ==
  /\ socks[s].handler.kind = "join_board"
  /\ socks[s].handler.step = "emit"
  /\ inbox' = IF s = Mcp /\ socks[s].state = "open"
                THEN Append(inbox, [event |-> "board_state",
                                    objects |-> socks[s].handler.objects])
                ELSE inbox
  /\ activeCount' = emitActiveUsers(activeUsers, socks[s].handler.board)
  /\ socks' = [socks EXCEPT ![s] = [@ EXCEPT !.handler = NoHandler]]
  /\ UNCHANGED <<activeUsers, boardState>>
  /\ UNCHANGED <<boards, collabs, req, conns, aiVars, syncVars>>

\* part_001:62-77: leave_board, with the boardId the client names
leave_board(s, boardId) ==
  /\ socks[s].state = "open"
  /\ socks[s].received < MaxEvents
  /\ socks' = [socks EXCEPT ![s] =
       [@ EXCEPT !.rooms = @ \ {boardId}, !.received = @ + 1]]
  /\ IF boardId \in DOMAIN activeUsers
       THEN /\ activeUsers' = activeUsersDelete(boardId, userKey(s))
            /\ activeCount' = emitActiveUsers(activeUsers', boardId)
       ELSE UNCHANGED <<activeUsers, activeCount>>
  /\ UNCHANGED <<inbox, boardState>>
  /\ UNCHANGED <<boards, collabs, req, conns, aiVars, syncVars>>

\* part_001:187-206: disconnect; the socket has left all its rooms by then
disconnect(s) ==
  /\ socks[s].state = "open"
  /\ socks' = [socks EXCEPT ![s] = [@ EXCEPT !.state = "closed", !.rooms = {}]]
  /\ IF socks[s].currentBoard # "" /\ socks[s].currentBoard \in DOMAIN activeUsers
       THEN /\ activeUsers' = activeUsersDelete(socks[s].currentBoard, userKey(s))
            /\ activeCount' = emitActiveUsers(activeUsers', socks[s].currentBoard)
       ELSE UNCHANGED <<activeUsers, activeCount>>
  /\ UNCHANGED <<inbox, boardState>>
  /\ UNCHANGED <<boards, collabs, req, conns, aiVars, syncVars>>

\* create_object handlers of the rooms that have not been given their id yet
RoomCreatesInFlight ==
  {s \in Socks : socks[s].handler.kind = "create_object" /\ socks[s].handler.id = 0}

\* part_001:80-85: create_object up to its await of createObject
create_object(s, boardId) ==
  /\ socks[s].state = "open"
  /\ socks[s].handler = NoHandler
  /\ socks[s].received < MaxEvents
  /\ nextId + Cardinality(RoomCreatesInFlight) <= MaxObjs
  /\ socks' = [socks EXCEPT ![s] =
       [@ EXCEPT !.received = @ + 1,
                 !.handler = [NoHandler EXCEPT !.kind = "create_object", !.board = boardId,
                                                !.step = "createObject"]]]
  /\ UNCHANGED <<activeUsers, activeCount, inbox, boardState>>
  /\ UNCHANGED <<boards, collabs, req, conns, aiVars, syncVars>>

\* supabase.js:105-123: the provider runs the insert of createObject; a
\* failed insert throws into the catch of part_001:93-96
create_insert(s, ok) ==
  /\ socks[s].handler.kind = "create_object"
  /\ socks[s].handler.step = "createObject"
  /\ IF ok /\ boards[socks[s].handler.board] # NoBoard
       THEN LET row == [id |-> nextId, board_id |-> socks[s].handler.board,
                        position |-> "u", properties |-> "u",
                        created_by |-> socks[s].userId]
            IN /\ db' = [db EXCEPT ![nextId] = row]
               /\ nextId' = nextId + 1
               /\ Feed([event |-> "INSERT", new |-> row])
               /\ socks' = [socks EXCEPT ![s] =
                    [@ EXCEPT !.handler = [@ EXCEPT !.step = "emit", !.id = nextId,
                                                    !.objects = <<mapObject(row)>>]]]
       ELSE /\ socks' = [socks EXCEPT ![s] = [@ EXCEPT !.handler = NoHandler]]
            /\ UNCHANGED <<db, nextId, feedQ, missed>>
  /\ UNCHANGED <<sub, bcastQ, store, join, fetched, op, ops, budget, faulted, deduped, raced>>
  /\ UNCHANGED <<activeUsers, activeCount, inbox, boardState>>
  /\ UNCHANGED <<boards, collabs, req, conns, aiVars>>

\* part_001:87-90: create_object after its await: object_created to the room
create_emit(s) ==
  /\ socks[s].handler.kind = "create_object"
  /\ socks[s].handler.step = "emit"
  /\ inbox' = IF socks[s].handler.board \in socks[Mcp].rooms
                THEN Append(inbox, [event |-> "object_created",
                                    objects |-> socks[s].handler.objects])
                ELSE inbox
  /\ socks' = [socks EXCEPT ![s] = [@ EXCEPT !.handler = NoHandler]]
  /\ UNCHANGED <<activeUsers, activeCount, boardState>>
  /\ UNCHANGED <<boards, collabs, req, conns, aiVars, syncVars>>

\* part_009:61-68: the MCP server takes the next event of its socket:
\* board_state replaces the cache, object_created pushes onto it
McpReceive ==
  /\ inbox # <<>>
  /\ boardState' = IF Head(inbox).event = "board_state"
                     THEN Head(inbox).objects
                     ELSE boardState \o Head(inbox).objects
  /\ inbox' = Tail(inbox)
  /\ UNCHANGED <<socks, activeUsers, activeCount>>
  /\ UNCHANGED <<boards, collabs, req, conns, aiVars, syncVars>>

\* the rooms before any socket has connected
IoIdle ==
  /\ socks = [s \in Socks |-> NewSock]
  /\ activeUsers = [b \in {} |-> {}]
  /\ activeCount = [b \in {} |-> 0]
  /\ inbox = <<>>
  /\ boardState = <<>>

\* the tables of the REST API while the other machines run: every board
\* exists, private, owned by the first user, with no collaborator
SrvIdle ==
  /\ boards = [b \in Boards |-> [id |-> b, owner_id |-> 1, is_public |-> FALSE]]
  /\ collabs = {}
  /\ req = IdleReq
  /\ conns = [c \in Conns |-> ClosedConn]
  /\ IoIdle

(***************************************************************************)
(* The board tools of the AI agent, with the table they write              *)
(***************************************************************************)
\* the tools that write: createShape, update_object, delete_object
WriteTools == {"create_rectangle", "update_object", "delete_object"}
\* input.updates of update_object
ToolUpdates == [position |-> "v"]

\* server.js:506-533 / api/ai.js:289-328: one writing tool call of run r on
\* the table; objectId is input.objectId, which the LLM chooses
ToolCallOn(r, tool, objectId, ok) ==
  /\ tool = "create_rectangle" => nextId <= MaxObjs
  /\ ToolCallOfRun(r, "write", ok)
  /\ IF ok /\ tool = "create_rectangle"
       THEN LET row == [id |-> nextId, board_id |-> runs[r].board, position |-> "u",
                        properties |-> "u", created_by |-> 0]
            IN /\ db' = [db EXCEPT ![nextId] = row]
               /\ nextId' = nextId + 1
               /\ Feed([event |-> "INSERT", new |-> row])
     ELSE IF ok /\ tool = "update_object" /\ db[objectId] # NoRow
       THEN LET row == Spread(db[objectId], ToolUpdates)
            IN /\ db' = [db EXCEPT ![objectId] = row]
               /\ Feed([event |-> "UPDATE", new |-> row])
               /\ UNCHANGED nextId
     ELSE IF ok /\ tool = "delete_object" /\ db[objectId] # NoRow
       THEN /\ db' = [db EXCEPT ![objectId] = NoRow]
            /\ Feed([event |-> "DELETE", old |-> [id |-> objectId]])
            /\ UNCHANGED nextId
     ELSE UNCHANGED <<db, nextId, feedQ, missed>>
  /\ UNCHANGED <<sub, bcastQ, store, join, fetched, op, ops, budget, faulted, deduped, raced>>
  /\ UNCHANGED srvVars

\* the board has one object when the model starts, drawn in an earlier session
FirstRow ==
  [id |-> 1, board_id |-> TheBoard, position |-> "u", properties |-> "u",
   created_by |-> 0]
FirstRows == [i \in ObjIds |-> IF i = 1 THEN FirstRow ELSE NoRow]

\* the provider and the stores before any client has opened the board
StoresIdle ==
  /\ sub = [c \in Clients |-> FALSE]
  /\ feedQ = [c \in Clients |-> <<>>]
  /\ bcastQ = [c \in Clients |-> <<>>]
  /\ store = [c \in Clients |-> EmptyStore]
  /\ join = [c \in Clients |-> "out"]
  /\ fetched = [c \in Clients |-> NoFetch]
  /\ op = [c \in Clients |-> NoOp]
  /\ ops = 0
  /\ budget = MaxOps
  /\ faulted = {}
  /\ missed = {}
  /\ deduped = FALSE
  /\ raced = {}

SyncIdle ==
  /\ db = FirstRows
  /\ nextId = 2
  /\ StoresIdle

\* every client has opened the board and its channel is subscribed
AllJoined ==
  /\ db = FirstRows
  /\ nextId = 2
  /\ sub = [c \in Clients |-> TRUE]
  /\ feedQ = [c \in Clients |-> <<>>]
  /\ bcastQ = [c \in Clients |-> <<>>]
  /\ store = [c \in Clients |->
       [EmptyStore EXCEPT !.boardId = TheBoard, !.objects = <<mapObject(FirstRow)>>,
                          !.channel = TRUE, !.connected = TRUE]]
  /\ join = [c \in Clients |-> "joined"]
  /\ fetched = [c \in Clients |-> NoFetch]
  /\ op = [c \in Clients |-> NoOp]
  /\ ops = 0
  /\ faulted = {}
  /\ missed = {}
  /\ deduped = FALSE
  /\ raced = {}

AIIdle ==
  /\ now = 0
  /\ locks = [k \in LockKeys |-> NoLock]
  /\ timers = {}
  /\ runs = [r \in Runs |-> IdleRun]

\* the store mutations and the delivery of their events
NextStore ==
  \/ \E c \in Clients, o \in NewObjects : addObject(c, o)
  \/ \E c \in Clients, ok \in BOOLEAN : DbInsert(c, ok)
  \/ \E c \in Clients : addObjectReturn(c)
  \/ \E c \in Clients, id \in ObjIds, u \in UpdateSets : updateObject(c, id, u)
  \/ \E c \in Clients, ok \in BOOLEAN : DbUpdate(c, ok)
  \/ \E c \in Clients : updateObjectReturn(c)
  \/ \E c \in Clients, id \in ObjIds : deleteObject(c, id)
  \/ \E c \in Clients, ok \in BOOLEAN : DbDelete(c, ok)
  \/ \E c \in Clients : deleteObjectReturn(c)
  \/ \E c \in Clients : DeliverFeed(c)
  \/ \E c \in Clients : DeliverBroadcast(c)

\* joinBoard as well
NextJoin ==
  \/ \E c \in Clients : joinBoard(c)
  \/ \E c \in Clients, ok \in BOOLEAN : FetchServe(c, ok)
  \/ \E c \in Clients : FetchReturn(c)
  \/ \E c \in Clients : Subscribed(c)
  \/ NextStore

\* leaveBoard as well
NextLeave ==
  \/ NextJoin
  \/ \E c \in Clients : leaveBoard(c)

\* clients that have joined the board edit it
InitSync == AIIdle /\ SrvIdle /\ AllJoined /\ budget = MaxOps
SpecSync == InitSync /\ [][NextStore]_vars

\* the same with one more edit, which two concurrent updates need
InitConverge == AIIdle /\ SrvIdle /\ AllJoined /\ budget = MaxOps + 1
SpecConverge == InitConverge /\ [][NextStore]_vars

\* clients open the board while others edit it
InitJoin == AIIdle /\ SrvIdle /\ SyncIdle
SpecJoin == InitJoin /\ [][NextJoin]_vars
SpecLeave == InitJoin /\ [][NextLeave]_vars

InitAI == AIIdle /\ SrvIdle /\ SyncIdle

NextAI ==
  \/ Tick
  \/ \E t \in timers : TimerFire(t)
  \/ \E r \in Runs, b \in Boards, e \in Entries : Receive(r, b, e)
  \/ \E r \in Runs, ok \in BOOLEAN : Authenticate(r, ok)
  \/ \E r \in Runs : AcquireLock(r)
  \/ \E r \in Runs, ok \in BOOLEAN : GetBoardState(r, ok)
  \/ \E r \in Runs, ok \in BOOLEAN, s \in StopReasons :
       \E n \in 0..(IF runs[r].i < MaxToolRounds THEN MaxTools ELSE 0) : LLMRequest(r, ok, n, s)
  \/ \E r \in Runs, k \in ToolKinds, ok \in BOOLEAN : ToolCall(r, k, ok)
  \/ \E r \in Runs, ok \in BOOLEAN : AuditLog(r, ok)

\* AI commands through both entry points
SpecAI == InitAI /\ [][NextAI]_vars

\* the rows a boards table and a board_collaborators table can hold
BoardRows(b) == {[id |-> b, owner_id |-> u, is_public |-> p] : u \in Users, p \in BOOLEAN}
CollabRows(b) == {[board_id |-> b, user_id |-> u, role |-> r] : u \in Users, r \in Roles}

\* requests to the REST API, against every content of the two tables: the
\* board the clients open exists or not, with any owner, flag and collaborators
InitBoards ==
  /\ AIIdle
  /\ StoresIdle
  /\ boards \in {[b \in Boards |-> IF b = TheBoard THEN row ELSE NoBoard] :
                   row \in BoardRows(TheBoard) \cup {NoBoard}}
  /\ collabs \in {rows \in SUBSET CollabRows(TheBoard) :
                    /\ UniqueCollaborators(rows)
                    /\ boards[TheBoard] = NoBoard => rows = {}}
  /\ db = IF boards[TheBoard] = NoBoard THEN [i \in ObjIds |-> NoRow] ELSE FirstRows
  /\ nextId = 2
  /\ req = IdleReq
  /\ conns = [c \in Conns |-> ClosedConn]
  /\ IoIdle

NextBoards ==
  \/ \E route \in Routes, b \in Boards, token \in Tokens : HttpRequest(route, b, token)
  \/ \E ok \in BOOLEAN : Auth(ok)
  \/ \E okBoard \in BOOLEAN, okCollab \in BOOLEAN : CheckBoardAccess(okBoard, okCollab)
  \/ RequireRole
  \/ \E ok \in BOOLEAN : HandleRead(ok)
  \/ \E ok \in BOOLEAN, isPublic \in BOOLEAN : HandlePatch(ok, isPublic)
  \/ \E okObjects \in BOOLEAN, okBoard \in BOOLEAN : HandleDelete(okObjects, okBoard)
  \/ \E ok \in BOOLEAN, userId \in Users \cup {NoUser}, role \in Roles \cup {NoRole} :
       HandleAddCollaborator(ok, userId, role)
  \/ \E ok \in BOOLEAN, userId \in Users : HandleRemoveCollaborator(ok, userId)

SpecBoards == InitBoards /\ [][NextBoards]_vars

\* a shape and a connector that starts and ends at it
ShapeRow ==
  [id |-> 1, board_id |-> TheBoard, position |-> "u", properties |-> [fill |-> "u"],
   created_by |-> 0]
ConnectorRow ==
  [id |-> 2, board_id |-> TheBoard, position |-> "u",
   properties |-> [fromId |-> 1, toId |-> 1], created_by |-> 0]
ConnectorRows ==
  [i \in ObjIds |-> IF i = 1 THEN ShapeRow ELSE IF i = 2 THEN ConnectorRow ELSE NoRow]

\* every client has opened a board that holds the shape and the connector
InitOrphan ==
  /\ AIIdle
  /\ SrvIdle
  /\ db = ConnectorRows
  /\ nextId = 3
  /\ sub = [c \in Clients |-> TRUE]
  /\ feedQ = [c \in Clients |-> <<>>]
  /\ bcastQ = [c \in Clients |-> <<>>]
  /\ store = [c \in Clients |->
       [EmptyStore EXCEPT !.boardId = TheBoard,
                          !.objects = <<mapObject(ShapeRow), mapObject(ConnectorRow)>>,
                          !.channel = TRUE, !.connected = TRUE]]
  /\ join = [c \in Clients |-> "joined"]
  /\ fetched = [c \in Clients |-> NoFetch]
  /\ op = [c \in Clients |-> NoOp]
  /\ ops = 0
  /\ budget = MaxOps + 1
  /\ faulted = {}
  /\ missed = {}
  /\ deduped = FALSE
  /\ raced = {}

\* objects are deleted, by the clients and through a socket
NextOrphan ==
  \/ \E c \in Clients, id \in ObjIds : deleteObject(c, id)
  \/ \E c \in Clients, ok \in BOOLEAN : DbDelete(c, ok)
  \/ \E c \in Clients : deleteObjectReturn(c)
  \/ \E c \in Clients : DeliverFeed(c)
  \/ \E c \in Clients : DeliverBroadcast(c)
  \/ \E c \in Conns, token \in Tokens, ok \in BOOLEAN : Connect(c, token, ok)
  \/ \E c \in Conns, id \in ObjIds : SocketEvent(c, "delete_object", id, TheBoard)
  \/ \E c \in Conns, ok \in BOOLEAN : \E h \in conns[c].inflight : SocketWrite(c, h, ok)

SpecOrphan == InitOrphan /\ [][NextOrphan]_vars

\* the clients select objects of a board with two objects and delete them
NextSelect ==
  \/ \E c \in Clients, ids \in {<<>>} \cup {<<id>> : id \in ObjIds} : setSelectedObjects(c, ids)
  \/ \E c \in Clients, id \in ObjIds : deleteObject(c, id)
  \/ \E c \in Clients, ok \in BOOLEAN : DbDelete(c, ok)
  \/ \E c \in Clients : deleteObjectReturn(c)
  \/ \E c \in Clients : DeliverFeed(c)
  \/ \E c \in Clients : DeliverBroadcast(c)

SpecSelect == InitOrphan /\ [][NextSelect]_vars

\* sockets of two users and of anonymous clients join and leave two boards
NextPresence ==
  \/ \E s \in Socks, token \in Tokens, ok \in BOOLEAN : connection(s, token, ok)
  \/ \E s \in Socks, b \in Boards : join_board(s, b)
  \/ \E s \in Socks, ok \in BOOLEAN : join_getObjects(s, ok)
  \/ \E s \in Socks : join_emit(s)
  \/ \E s \in Socks, b \in Boards : leave_board(s, b)
  \/ \E s \in Socks : disconnect(s)

InitRooms == AIIdle /\ SrvIdle /\ SyncIdle

SpecPresence == InitRooms /\ [][NextPresence]_vars

\* the MCP server joins its board while it and another socket create objects
NextMcp ==
  \/ \E s \in Socks : connection(s, NoUser, TRUE)
  \/ \E s \in Socks : join_board(s, DEFAULT_BOARD_ID)
  \/ \E s \in Socks, ok \in BOOLEAN : join_getObjects(s, ok)
  \/ \E s \in Socks : join_emit(s)
  \/ \E s \in Socks : create_object(s, DEFAULT_BOARD_ID)
  \/ \E s \in Socks, ok \in BOOLEAN : create_insert(s, ok)
  \/ \E s \in Socks : create_emit(s)
  \/ McpReceive

SpecMcp == InitRooms /\ [][NextMcp]_vars

\* sockets send object events about a board that user 1 owns, public or not,
\* with any collaborators among the other users
InitSocket ==
  /\ AIIdle
  /\ StoresIdle
  /\ boards \in {[b \in Boards |-> IF b = TheBoard THEN row ELSE NoBoard] :
                   row \in {x \in BoardRows(TheBoard) : x.owner_id = 1}}
  /\ collabs \in {rows \in SUBSET {x \in CollabRows(TheBoard) : x.user_id # 1} :
                    UniqueCollaborators(rows)}
  /\ db = FirstRows
  /\ nextId = 2
  /\ req = IdleReq
  /\ conns = [c \in Conns |-> ClosedConn]
  /\ IoIdle

NextSocket ==
  \/ \E c \in Conns, token \in Tokens, ok \in BOOLEAN : Connect(c, token, ok)
  \/ \E c \in Conns, b \in Boards : JoinBoard(c, b)
  \/ \E c \in Conns, e \in SocketEvents, id \in ObjIds, b \in Boards :
       SocketEvent(c, e, id, b)
  \/ \E c \in Conns, ok \in BOOLEAN : \E h \in conns[c].inflight : SocketWrite(c, h, ok)

SpecSocket == InitSocket /\ [][NextSocket]_vars

\* sockets create, update and delete objects of two boards of user 1 whose
\* table is empty at first, while requests list the objects of a board or
\* delete it
InitObjects ==
  /\ AIIdle
  /\ StoresIdle
  /\ SrvIdle
  /\ db = [i \in ObjIds |-> NoRow]
  /\ nextId = 1

NextObjects ==
  \/ NextSocket
  \/ \E route \in {"getObjects", "deleteBoard"}, b \in Boards, token \in Users :
       HttpRequest(route, b, token)
  \/ \E ok \in BOOLEAN : Auth(ok)
  \/ \E okBoard, okCollab \in BOOLEAN : CheckBoardAccess(okBoard, okCollab)
  \/ RequireRole
  \/ \E ok \in BOOLEAN : HandleRead(ok)
  \/ \E okObjects, okBoard \in BOOLEAN : HandleDelete(okObjects, okBoard)

SpecObjects == InitObjects /\ [][NextObjects]_vars

\* the one object of the table belongs to the second board
OtherBoardRows ==
  [i \in ObjIds |-> IF i = 1 THEN [FirstRow EXCEPT !.board_id = "b2"] ELSE NoRow]

InitTools ==
  /\ AIIdle
  /\ SrvIdle
  /\ StoresIdle
  /\ db = OtherBoardRows
  /\ nextId = 2

\* one AI command whose tool calls write the table
NextTools ==
  \/ /\ \A q \in Runs : runs[q].pc = "idle"
     /\ \E r \in Runs, b \in Boards, e \in Entries : Receive(r, b, e)
  \/ \E r \in Runs, ok \in BOOLEAN : Authenticate(r, ok)
  \/ \E r \in Runs : AcquireLock(r)
  \/ \E r \in Runs, ok \in BOOLEAN : GetBoardState(r, ok)
  \/ \E r \in Runs, ok \in BOOLEAN, s \in StopReasons, n \in 0..MaxTools :
       LLMRequest(r, ok, n, s)
  \/ \E r \in Runs, k \in {"read", "unknown"}, ok \in BOOLEAN : ToolCall(r, k, ok)
  \/ \E r \in Runs, tool \in WriteTools, id \in ObjIds, ok \in BOOLEAN :
       ToolCallOn(r, tool, id, ok)
  \/ \E r \in Runs, ok \in BOOLEAN : AuditLog(r, ok)

SpecTools == InitTools /\ [][NextTools]_vars

\* one AI command, with an LLM that may ask for tools in every round
NextLoop ==
  \/ /\ \A q \in Runs : runs[q].pc = "idle"
     /\ \E r \in Runs, b \in Boards, e \in Entries : Receive(r, b, e)
  \/ \E r \in Runs, ok \in BOOLEAN : Authenticate(r, ok)
  \/ \E r \in Runs : AcquireLock(r)
  \/ \E r \in Runs, ok \in BOOLEAN : GetBoardState(r, ok)
  \/ \E r \in Runs, ok \in BOOLEAN, s \in StopReasons, n \in 0..MaxTools :
       LLMRequest(r, ok, n, s)
  \/ \E r \in Runs, k \in ToolKinds, ok \in BOOLEAN : ToolCall(r, k, ok)
  \/ \E r \in Runs, ok \in BOOLEAN : AuditLog(r, ok)

\* every await of the command settles: the provider, the LLM and the tools
\* answer or fail
SpecLoop == InitAI /\ [][NextLoop]_vars /\ WF_vars(NextLoop)

(***************************************************************************)
(* Properties of the AI command agent                                      *)
(***************************************************************************)
\* the run whose lock value is stored under the key of its board
HoldsEntry(q) ==
  /\ runs[q].lockValue # NoValue
  /\ locks[lockKey(runs[q].board)] # NoLock
  /\ locks[lockKey(runs[q].board)].value = runs[q].lockValue

\* a run that acquired the lock and has not returned yet
Running(q) == runs[q].pc \in {"state", "llm", "tools", "audit"}

\* ttlMs have not yet passed since the entry was acquired (its value starts
\* with the time of the acquisition)
Unexpired(entry) == entry # NoLock /\ now < entry.value[1] + ttlMs

\* run r takes the step that calls acquireLock
Acquiring(r) == runs[r].pc = "acquire" /\ runs'[r].pc # "acquire"

\* C1: for any board, at most one AI command run is inside its tool-calling
\* loop at any moment, whichever entry point started the runs and however
\* long a run takes.
C1_RunsNeverInterleave ==
  \A r1, r2 \in Runs :
    (r1 # r2 /\ InLoop(r1) /\ InLoop(r2)) => runs[r1].board # runs[r2].board

\* C5: every handleAICommand run that acquired the board lock releases it
\* before it returns, on the success path and on every exception path: a lock
\* entry always carries the lock value of a run that has not returned yet.
C5_LockReleasedOnReturn ==
  \A k \in LockKeys :
    locks[k] # NoLock =>
      \E r \in Runs : Running(r) /\ lockKey(runs[r].board) = k /\ HoldsEntry(r)

\* one run has returned through an exception after it had acquired the lock,
\* another one has returned with success, and no lock entry is left
C5_Witness ==
  /\ \E r \in Runs : /\ runs[r].pc = "done" /\ runs[r].entry = "socket"
                      /\ runs[r].message = ErrorMessage
  /\ \E r \in Runs : /\ runs[r].pc = "done" /\ runs[r].entry = "socket"
                      /\ runs[r].success
  /\ \A k \in LockKeys : locks[k] = NoLock

C7_LockExpires ==
  [][\A r \in Runs :
       LET key == lockKey(runs[r].board)
       IN (Acquiring(r) /\ ~Unexpired(locks[key]))
            => /\ runs'[r].pc = "state"
               /\ runs'[r].lockValue # NoValue
               /\ locks'[key].value = runs'[r].lockValue
               /\ locks'[key].value # locks[key].value]_vars

\* a run took the lock over from a holder that is still running and never
\* released it
C7_Witness ==
  \E r, q \in Runs :
    /\ r # q
    /\ runs[r].board = runs[q].board
    /\ Running(q) /\ runs[q].lockValue # NoValue /\ ~HoldsEntry(q)
    /\ Running(r) /\ HoldsEntry(r)

(***************************************************************************)
(* Properties of the client store                                          *)
(***************************************************************************)
\* the copy of object id in a list of objects (NoRow when it is not there)
Entry(objs, id) ==
  IF Has(objs, id) THEN objs[CHOOSE i \in DOMAIN objs : objs[i].id = id] ELSE NoRow

\* what a client shows when it shows exactly the rows of the table
Committed(id) == IF db[id] = NoRow THEN NoRow ELSE mapObject(db[id])

\* nothing is in flight: no store mutation is running and every event the
\* provider sent has been delivered
Settled ==
  \A c \in Clients : op[c] = NoOp /\ feedQ[c] = <<>> /\ bcastQ[c] = <<>>

\* client c starts a store mutation / returns from it
Starts(c) == op[c] = NoOp /\ op'[c] # NoOp
Returns(c) == op[c] # NoOp /\ op'[c] = NoOp

\* C2: after two clients concurrently updated the same object and every
\* feed event and relay broadcast of both writes has been delivered to every
\* client, all clients hold the same value for that object.
C2_ConcurrentUpdatesConverge ==
  (Settled /\ faulted = {}) =>
    \A id \in raced : \A c, d \in Clients :
      Entry(store[c].objects, id) = Entry(store[d].objects, id)

\* C3: once nothing is in flight, every client that has joined the board shows
\* every create, update and delete the other clients committed, whenever it
\* joined: its copy of every object it did not create itself is the row of the
\* table, and it shows no object the table does not hold.
C3_JoinedClientsSeeEveryCommit ==
  (Settled /\ faulted = {} /\ \A c \in Clients : join[c] = "joined") =>
    \A c \in Clients : \A id \in ObjIds \ raced :
      \/ Entry(store[c].objects, id) = Committed(id)
      \/ Committed(id) # NoRow /\ Committed(id).createdBy = c

\* C4: the objects list of a client never holds two entries with the same id,
\* however feed INSERT events, object_created broadcasts and completed
\* addObject calls interleave.
C4_NoDuplicateIds ==
  \A c \in Clients : \A i, j \in DOMAIN store[c].objects :
    store[c].objects[i].id = store[c].objects[j].id => i = j

\* a create reached both clients twice (the writer through its own addObject
\* and the feed, the other one through the feed and the broadcast), the second
\* one was dropped, and each list holds the new object once
C4_Witness ==
  /\ deduped
  /\ Settled
  /\ \A c \in Clients : Ids(store[c].objects) = {1, 2} /\ Len(store[c].objects) = 2

\* C8: a client applies every incoming update or delete without comparing it
\* to what it holds: after a feed UPDATE its copy is the row of the event,
\* after an object_updated broadcast its copy carries the values of the event,
\* after a delete event the object is gone.
C8_EventsAppliedUnconditionally ==
  [][\A c \in Clients :
       /\ (feedQ[c] # <<>> /\ feedQ'[c] = Tail(feedQ[c])) =>
            LET ev == Head(feedQ[c])
            IN /\ (ev.event = "UPDATE" /\ Has(store[c].objects, ev.new.id)) =>
                    Entry(store'[c].objects, ev.new.id) = mapObject(ev.new)
               /\ ev.event = "DELETE" => ~Has(store'[c].objects, ev.old.id)
       /\ (bcastQ[c] # <<>> /\ bcastQ'[c] = Tail(bcastQ[c])) =>
            LET ev == Head(bcastQ[c])
            IN /\ (ev.event = "object_updated" /\ Has(store[c].objects, ev.payload.objectId)) =>
                    \A k \in DOMAIN ev.payload.updates :
                      Entry(store'[c].objects, ev.payload.objectId)[k] = ev.payload.updates[k]
               /\ ev.event = "object_deleted" =>
                    ~Has(store'[c].objects, ev.payload.objectId)]_vars

\* two clients updated one object at the same time, every event of both
\* writes has been processed, and the two clients ended with different values:
\* each one with those of the event it processed last
C8_Witness ==
  /\ Settled
  /\ faulted = {}
  /\ \E id \in raced : \E c, d \in Clients :
       /\ Has(store[c].objects, id) /\ Has(store[d].objects, id)
       /\ Entry(store[c].objects, id) # Entry(store[d].objects, id)

\* C9: a relay broadcast is sent only by a store mutation whose database
\* write has returned without error, it carries the payload of that write,
\* and a mutation whose write failed sends none.
C9_RelayOnlyAfterSuccessfulWrite ==
  [][/\ \A d \in Clients :
          Len(bcastQ'[d]) > Len(bcastQ[d]) =>
            LET ev == bcastQ'[d][Len(bcastQ'[d])]
            IN \E c \in Clients \ {d} :
                 /\ Returns(c)
                 /\ op[c].status = "ok"
                 /\ op[c].kind = "add" =>
                      /\ ev.event = "object_created"
                      /\ ev.payload.object.id = op[c].data.id
                      /\ ev.payload.object.boardId = op[c].boardId
                      /\ ev.payload.object.position = op[c].object.position
                      /\ ev.payload.object.properties = op[c].object.properties
                 /\ op[c].kind = "update" =>
                      ev = [event |-> "object_updated",
                            payload |-> [objectId |-> op[c].objectId,
                                         updates |-> op[c].dbUpdates]]
                 /\ op[c].kind = "delete" =>
                      ev = [event |-> "object_deleted",
                            payload |-> [objectId |-> op[c].objectId]]
     /\ \A c \in Clients :
          (Returns(c) /\ op[c].status = "error") => bcastQ' = bcastQ]_vars

\* a store mutation has returned without error and its broadcast is on its
\* way to the other client
C9_Witness ==
  /\ ops > 0
  /\ faulted = {}
  /\ \A c \in Clients : op[c] = NoOp
  /\ \E d \in Clients : bcastQ[d] # <<>>

\* C10: every store mutation, addObject included, changes the local
\* objects list when it starts, before the write is sent, and a failed write
\* leaves the list as it is.
C10_EveryMutationIsOptimistic ==
  [][\A c \in Clients :
       /\ (Starts(c) /\ op'[c].kind = "add") =>
            Len(store'[c].objects) = Len(store[c].objects) + 1
       /\ (Starts(c) /\ op'[c].kind = "update") =>
            Entry(store'[c].objects, op'[c].objectId)
              = Spread(Entry(store[c].objects, op'[c].objectId), op'[c].updates)
       /\ (Starts(c) /\ op'[c].kind = "delete") =>
            ~Has(store'[c].objects, op'[c].objectId)
       /\ (Returns(c) /\ op[c].status = "error") => store'[c] = store[c]]_vars

(***************************************************************************)
(* Properties of the AI tool loop                                          *)
(***************************************************************************)
\* C11: every AI tool call that changes the board writes to the database and
\* then emits exactly one relay broadcast of that change: at every moment a
\* run has emitted as many relays as it has completed board writes.
C11_EveryToolWriteIsRelayed ==
  \A r \in Runs : runs[r].emits = runs[r].writes

\* C12: one AI command issues at most MAX_TOOL_ITERATIONS LLM requests,
\* whatever the LLM answers, and then ends with a response.
C12_BoundedRequests ==
  /\ [](\A r \in Runs : runs[r].requests <= MAX_TOOL_ITERATIONS)
  /\ \A r \in Runs : (runs[r].pc # "idle") ~> (runs[r].pc = "done")

\* the LLM asked for the most tools in every round, every one a board write,
\* and the command ended with a response after MAX_TOOL_ITERATIONS requests
C12_Witness ==
  \E r \in Runs :
    /\ runs[r].pc = "done" /\ runs[r].success
    /\ runs[r].requests = MAX_TOOL_ITERATIONS
    /\ runs[r].writes = MaxTools * MAX_TOOL_ITERATIONS

\* C13: when an LLM request or a tool call of an AI command fails, the board
\* writes the command completed before stay: the failing step undoes none, a
\* command never takes a write back, and a command that has returned does
\* nothing more.
C13_NoRollback ==
  [][\A r \in Runs :
       /\ (runs[r].pc \in {"llm", "tools"} /\ runs'[r].pc = "done" /\ ~runs'[r].success)
            => runs'[r].writes = runs[r].writes
       /\ runs'[r].pc # "idle" => runs'[r].writes >= runs[r].writes
       /\ runs[r].pc = "done" => runs'[r] = runs[r]]_vars

\* a command failed at a tool call of its second round, after a whole first
\* round of writes and an earlier write of the second round
C13_Witness ==
  \E r \in Runs :
    /\ runs[r].pc = "done" /\ ~runs[r].success /\ runs[r].message = ErrorMessage
    /\ runs[r].requests = 2
    /\ runs[r].writes = MaxTools + 1

(***************************************************************************)
(* Properties of the REST API                                              *)
(***************************************************************************)
\* the order of the roles, lowest first
RoleOrder == <<"viewer", "editor", "admin", "owner">>
Rank(role) == CHOOSE i \in DOMAIN RoleOrder : RoleOrder[i] = role
RoleAtLeast(role, minRole) == Rank(role) >= Rank(minRole)

\* the stored rows the access check of the request in flight is about
BoardRowOf(r) == boards[r.boardId]
CollabRowsOf(r) == {c \in collabs : c.board_id = r.boardId}

\* C14: for a board whose is_public flag is true, a caller with no
\* authenticated user passes the board access check and is given the role
\* viewer (unless a read of the check fails).
C14_PublicBoardAdmitsAnonymous ==
  [][(/\ req.pc = "access"
      /\ req.user = NoUser
      /\ BoardRowOf(req) # NoBoard
      /\ BoardRowOf(req).is_public
      /\ req'.pc # "access")
     => \/ req'.status = 500
        \/ (req'.pc = "handler" /\ req'.userRole = "viewer")]_vars

\* C15: requireRole(minRole) lets a request through exactly when the role
\* of the caller is at or above minRole in viewer < editor < admin < owner; a
\* caller below gets 403 and the route handler is not invoked.
C15_RequireRole ==
  /\ [](\A role \in Roles, minRole \in Roles :
          requireRole(role, minRole) <=> RoleAtLeast(role, minRole))
  /\ [][req.pc = "role"
        => IF RoleAtLeast(req.userRole, minRoleOf(req.route))
             THEN req'.pc = "handler"
             ELSE req'.pc = "done" /\ req'.status = 403 /\ ~req'.invoked]_vars
  /\ [](req.invoked /\ minRoleOf(req.route) # NoRole
          => RoleAtLeast(req.userRole, minRoleOf(req.route)))

\* an editor asked to change the board settings and was answered 403
C15_Witness ==
  /\ req.pc = "done" /\ req.route = "patchBoard"
  /\ req.userRole = "editor" /\ req.status = 403 /\ ~req.invoked

\* what the stored rows say about a user: 404, 403 or a role
Decision(boardRow, collabRows, userId) ==
  IF boardRow = NoBoard THEN "404"
  ELSE IF boardRow.owner_id = userId THEN "owner"
  ELSE IF \E c \in collabRows : c.user_id = userId
    THEN (CHOOSE c \in collabRows : c.user_id = userId).role
  ELSE IF boardRow.is_public THEN "viewer"
  ELSE "403"

\* C16: the access decision for an authenticated caller is a function of the
\* stored board row and collaborator rows, whatever requests came before: a
\* missing board gives 404, the owner resolves to owner, otherwise a
\* collaborator row to its role, otherwise a public board to viewer,
\* otherwise 403 (unless a read of the check fails).
C16_DecisionFromRowsOnly ==
  [][(req.pc = "access" /\ req.user # NoUser /\ req'.pc # "access")
     => LET d == Decision(BoardRowOf(req), CollabRowsOf(req), req.user)
        IN \/ req'.status = 500
           \/ d = "404" /\ req'.pc = "done" /\ req'.status = 404
           \/ d = "403" /\ req'.pc = "done" /\ req'.status = 403
           \/ d \in Roles /\ req'.pc \in {"role", "handler"} /\ req'.userRole = d]_vars

\* a collaborator of a public board, not its owner, resolved to the stored
\* role admin and reached the handler that changes the board
C16_Witness ==
  /\ req.pc = "handler" /\ req.route = "patchBoard"
  /\ req.board # NoBoard /\ req.board.isPublic /\ req.board.ownerId # req.user
  /\ req.userRole = "admin"

(***************************************************************************)
(* Properties of the stored objects                                        *)
(***************************************************************************)
\* the user holds the role editor or a higher one on the board
CanEdit(userId, boardId) ==
  /\ userId # NoUser
  /\ Decision(boards[boardId], {c \in collabs : c.board_id = boardId}, userId)
       \in {"editor", "admin", "owner"}

\* the board of the object that is stored under id before or after a step
BoardOfObject(id) == IF db[id] # NoRow THEN db[id].board_id ELSE db'[id].board_id

\* C17: only a user whose role on a board is editor or higher creates,
\* updates or deletes objects of that board: every step that changes a stored
\* object is the write of a handler whose connection belongs to such a user.
C17_OnlyEditorsWriteObjects ==
  [][\A id \in ObjIds :
       db'[id] # db[id]
         => \E c \in Conns :
              /\ conns'[c].inflight # conns[c].inflight
              /\ CanEdit(conns[c].userId, BoardOfObject(id))]_vars

\* C18: a stored object disappears only through a delete of that object or
\* with its board: an object of a board that still exists after a step is
\* still stored, unless a delete of that object was in flight.
C18_ObjectsLeaveOnlyByDelete ==
  [][\A id \in ObjIds :
       (/\ db[id] # NoRow
        /\ db'[id] = NoRow
        /\ boards'[db[id].board_id] # NoBoard)
         => \/ \E c \in Clients : op[c].kind = "delete" /\ op[c].objectId = id
            \/ \E c \in Conns : \E h \in conns[c].inflight :
                 h.event = "delete_object" /\ h.objectId = id]_vars

(***************************************************************************)
(* Properties of the socket handlers                                       *)
(***************************************************************************)
\* C20: the socket event handlers of one connection run one at a time, so at
\* most one of them is between its start and its end, and the relays of the
\* connection are emitted in the order its events were received.
C20_HandlersRunOneAtATime ==
  \A c \in Conns :
    /\ Cardinality(conns[c].inflight) <= 1
    /\ \A i, j \in DOMAIN conns[c].relays :
         i < j => conns[c].relays[i].seq < conns[c].relays[j].seq

(***************************************************************************)
(* Properties of deletes                                                   *)
(***************************************************************************)
\* the step deletes the object: a client starts its delete, the provider runs
\* the delete of a client or of a socket handler, or a client applies a
\* DELETE event or an object_deleted broadcast
Deleted(id) ==
  \/ \E c \in Clients : op[c] = NoOp /\ op'[c] # NoOp /\ op'[c].objectId = id
  \/ \E c \in Clients : op[c] # NoOp /\ op'[c] # op[c] /\ op[c].objectId = id
  \/ \E c \in Clients : /\ feedQ[c] # <<>>
                        /\ feedQ'[c] = Tail(feedQ[c])
                        /\ Head(feedQ[c]).old.id = id
  \/ \E c \in Clients : /\ bcastQ[c] # <<>>
                        /\ bcastQ'[c] = Tail(bcastQ[c])
                        /\ Head(bcastQ[c]).payload.objectId = id
  \/ \E c \in Conns : \E h \in conns[c].inflight :
       h \notin conns'[c].inflight /\ h.objectId = id

\* the objects of a list
ObjectsOf(objs) == {objs[i] : i \in DOMAIN objs}

\* C19: deleting an object changes no other object: in every step, an object
\* the step does not delete keeps its row and stays, as it was, in the list
\* of every client that had it; so does a connector whose fromId or toId
\* names the deleted object.
C19_DeleteChangesNoOtherObject ==
  [][\A id \in ObjIds :
       ~Deleted(id)
         => /\ db'[id] = db[id]
            /\ \A c \in Clients : \A o \in ObjectsOf(store[c].objects) :
                 o.id = id => o \in ObjectsOf(store'[c].objects)]_vars

\* the shape is gone from the table and from every list, every event about
\* it has been applied, and the connector that names it is still stored and
\* in every list
C19_Witness ==
  /\ db[1] = NoRow
  /\ db[2] = ConnectorRow
  /\ References(mapObject(db[2]), 1)
  /\ \A c \in Clients :
       /\ store[c].objects = <<mapObject(ConnectorRow)>>
       /\ feedQ[c] = <<>> /\ bcastQ[c] = <<>> /\ op[c] = NoOp

(***************************************************************************)
(* Properties of the lock entries                                          *)
(***************************************************************************)
\* C22: a lock entry is removed only by its own holder: whenever an entry
\* leaves the map, the step is the return of the run whose lock value the
\* entry carries, or the firing of the timer that was set with that value.
C22_EntryRemovedOnlyByHolder ==
  [][\A k \in LockKeys :
       (locks[k] # NoLock /\ locks'[k] = NoLock)
         => \/ \E r \in Runs : /\ runs[r].lockValue = locks[k].value
                               /\ runs'[r].pc = "done"
            \/ \E t \in timers : /\ t \notin timers'
                                 /\ t.key = k
                                 /\ t.value = locks[k].value]_vars

\* the lock of run r expired and run q acquired it; r has returned through
\* its finally block, where releaseLock answered false, before its own timer
\* fired; q is still running and still holds its entry
C22_Witness ==
  \E r, q \in Runs :
    /\ r # q
    /\ runs[r].board = runs[q].board
    /\ runs[r].pc = "done" /\ runs[r].entry = "socket"
    /\ runs[r].message \in {"Done", ErrorMessage}
    /\ ~runs[r].released
    /\ \E t \in timers : t.key = lockKey(runs[r].board) /\ t.value[2] = r
    /\ Running(q) /\ HoldsEntry(q)

(***************************************************************************)
(* Properties of a round of the AI loop                                    *)
(***************************************************************************)
\* run r takes the step in which an LLM request is answered
Answered(r) ==
  /\ runs[r].pc = "llm"
  /\ runs'[r].requests = runs[r].requests + 1
  /\ ~(runs'[r].pc = "done" /\ ~runs'[r].success)

\* C26: a round whose LLM response has stop_reason end_turn or no tool_use
\* block executes no tool and ends the loop; a round with tool_use blocks and
\* a stop_reason other than tool_use and end_turn executes each of its tools
\* once and ends the loop without a further LLM request.
C26_RoundEndsTheLoop ==
  [][\A r \in Runs :
       /\ Answered(r) =>
            IF runs'[r].blocks = 0 \/ runs'[r].stop = "end_turn"
              THEN /\ runs'[r].pc \in {"audit", "done"}
                   /\ runs'[r].writes = runs[r].writes
                   /\ runs'[r].emits = runs[r].emits
              ELSE /\ runs'[r].pc = "tools"
                   /\ runs'[r].pending = runs'[r].blocks
       /\ (runs[r].pc = "tools" /\ runs[r].stop \notin {"tool_use", "end_turn"}) =>
            /\ runs'[r].requests = runs[r].requests
            /\ runs'[r].pc \in {"tools", "audit", "done"}
            /\ runs'[r].pc = "tools" => runs'[r].pending = runs[r].pending - 1
            /\ (runs'[r].pc = "audit" \/ (runs'[r].pc = "done" /\ runs'[r].success))
                 => runs[r].pending = 1]_vars

\* the one response of a command carried the most tool_use blocks, all board
\* writes: they were executed once each, and the command returned without a
\* second LLM request, so the stop_reason was not tool_use
C26_Witness ==
  \E r \in Runs :
    /\ runs[r].pc = "done" /\ runs[r].success
    /\ runs[r].requests = 1
    /\ runs[r].writes = MaxTools

(***************************************************************************)
(* Properties of the board tools                                           *)
(***************************************************************************)
\* C24: an AI command issued for board B changes only objects whose board is
\* B: every step that modifies or removes a stored object is a tool call of a
\* command whose board is the board of that object.
C24_ToolsStayOnTheirBoard ==
  [][\A id \in ObjIds :
       (db[id] # NoRow /\ db'[id] # db[id])
         => \E r \in Runs : /\ runs'[r].writes = runs[r].writes + 1
                            /\ runs[r].board = db[id].board_id]_vars

(***************************************************************************)
(* Properties of deleted ids in the client store                           *)
(***************************************************************************)
\* C23: once a client has applied a delete for an object id, the id does not
\* reappear in its objects list: while the client's own deleteObject of the id
\* is in flight, no step puts the id back into its list.
C23_DeletedIdNeverReappears ==
  [][\A c \in Clients, id \in ObjIds :
       (/\ op[c].kind = "delete"
        /\ op[c].objectId = id
        /\ ~Has(store[c].objects, id))
         => ~Has(store'[c].objects, id)]_vars

\* the ids a client has selected
SelectedIds(c) == {store[c].selectedObjectIds[i] : i \in DOMAIN store[c].selectedObjectIds}

\* C30: whenever the client store removes an object id from objects through
\* a delete, it removes the id from selectedObjectIds in the same state
\* update, so no delete leaves a deleted id selected.
C30_DeleteUnselects ==
  /\ [][\A c \in Clients, id \in ObjIds :
          (Deleted(id) /\ Has(store[c].objects, id) /\ ~Has(store'[c].objects, id))
            => \A i \in DOMAIN store'[c].selectedObjectIds :
                 store'[c].selectedObjectIds[i] # id]_vars
  /\ [](\A c \in Clients : SelectedIds(c) \subseteq Ids(store[c].objects))

\* the shape has been deleted and every event about it applied; a client
\* that does not list it any more has the connector selected and nothing else
C30_Witness ==
  /\ db[1] = NoRow
  /\ \E c \in Clients : faulted = {} /\ op[c] = NoOp
  /\ \A c \in Clients :
       /\ ~Has(store[c].objects, 1)
       /\ feedQ[c] = <<>> /\ bcastQ[c] = <<>>
  /\ \E c \in Clients : store[c].selectedObjectIds = <<2>>

\* C29: a collaborator added through POST /:boardId/collaborators never
\* receives a role above the role of the requester: every row a request adds
\* to board_collaborators has a role the requester's role is at least.
C29_NoRoleAboveTheRequesters ==
  [][\A row \in collabs' \ collabs : RoleAtLeast(req.userRole, row.role)]_vars

(***************************************************************************)
(* Properties of the rooms                                                 *)
(***************************************************************************)
\* the users that have a connected socket joined to the room of the board
UsersIn(boardId) ==
  {userKey(s) : s \in {t \in Socks : socks[t].state = "open" /\ boardId \in socks[t].rooms}}

\* C27: for every board, the count sent in active_users equals the number of
\* distinct users that have at least one connected socket joined to that
\* board: every step that sends a count for a board sends that number.
C27_CountIsTheUsersInTheRoom ==
  [][\A b \in Boards :
       (/\ b \in DOMAIN activeCount'
        /\ (b \in DOMAIN activeCount => activeCount'[b] # activeCount[b]))
         => activeCount'[b] = Cardinality(UsersIn(b))']_vars

\* C28: the cached boardState of the MCP server never holds two entries with
\* the same object id.
C28_NoDuplicateInBoardState ==
  \A i, j \in DOMAIN boardState : i # j => boardState[i].id # boardState[j].id

(***************************************************************************)
(* Properties of the object listing                                        *)
(***************************************************************************)
\* the ids of the listing of a board
Listed(boardId) == Ids(getObjects(boardId))

\* C21: after an object create succeeds and returns an id, that id appears in
\* every later listing of that board's objects until a delete of that id
\* succeeds, and in no listing after that: a create lists its id at once, a
\* listed id of a board that still exists stays listed unless a delete of
\* that id is being answered, and an id that was handed out and is not listed
\* is never listed again.
C21_ListedFromCreateToDelete ==
  [][\A b \in Boards, id \in ObjIds :
       /\ (nextId' = nextId + 1 /\ id = nextId /\ db'[id].board_id = b)
            => id \in Listed(b)'
       /\ (id \in Listed(b) /\ boards'[b] # NoBoard /\ id \notin Listed(b)')
            => \E c \in Conns : \E h \in conns[c].inflight :
                 /\ h.event = "delete_object"
                 /\ h.objectId = id
                 /\ h \notin conns'[c].inflight
       /\ (id < nextId /\ id \notin Listed(b)) => id \notin Listed(b)']_vars

(***************************************************************************)
(* Properties of leaving a board                                           *)
(***************************************************************************)
\* joinBoard sets boardId before its await and nothing but leaveBoard sets it
\* back to null: a client whose joinBoard has started and whose boardId is
\* null has called leaveBoard
HasLeft(c) == join[c] # "out" /\ store[c].boardId = "null"
\* the joinBoard call of the client has returned
JoinFinished(c) == join[c] \in {"subscribing", "joined"}

\* C25: the client store is not subscribed after leaving: once leaveBoard has
\* been called and the joinBoard call started before it has finished, the
\* store holds no channel, no subscription and no objects.
C25_NothingLeftAfterLeave ==
  \A c \in Clients :
    (HasLeft(c) /\ JoinFinished(c))
      => (~store[c].channel /\ ~sub[c] /\ store[c].objects = <<>>)

====
